---- MODULE Spec2Model ----
(***************************************************************************)
(* Verification model of the spillover-network core of WWAI-GNN:           *)
(*   graph-algorithms.ts : buildSymmetricAdjacency, louvainCommunities,    *)
(*                         betweennessCentrality, buildEdgeList            *)
(*   force-atlas2.ts     : createFA2Nodes, fa2Iterate                      *)
(*                                                                         *)
(* Weights are integers (multiples of an arbitrary weight unit).  Exact    *)
(* quotients are kept as reduced fractions [num, den].                     *)
(***************************************************************************)
EXTENDS Integers, Sequences, FiniteSets, TLC

VARIABLES
    \* ---- buildSymmetricAdjacency / buildEdgeList ----
    matrix,      \* directed weight mapping: code -> (code -> weight), partial
    countries,   \* ordered code list (position p of the code is p - 1 in the source)
    adj,         \* symmetric adjacency, [0..n-1 -> [0..n-1 -> weight]]
    adjDone,     \* buildSymmetricAdjacency has returned
    minWeight,   \* threshold handed to buildEdgeList
    edges,       \* result of buildEdgeList
    edgesDone,   \* buildEdgeList has returned
    \* ---- louvainCommunities / betweennessCentrality ----
    nodeCount,   \* n
    lpc,         \* "start", "visit", "endpass", "done"
    community,   \* community[i]
    sigmaTot,    \* sigmaTot[c]
    sigmaIn,     \* sigmaIn[c]
    iter,        \* pass counter of the outer loop
    visit,       \* i of the inner loop
    moved,       \* some node changed community in this pass
    louvainOut,  \* the returned array
    threshold,   \* betweennessCentrality's threshold
    bpc,         \* "sources", "done"
    bcSource,    \* s of the outer loop
    bc,          \* raw scores bc[w], exact fractions
    bcOut,       \* the returned array, exact fractions
    \* ---- fa2Iterate ----
    faNodes,     \* the node array, [0..n-1 -> FA2Node], numbers in units
    faEdges,     \* the edge list handed to every call
    faConfig,    \* the merged configuration cfg
    faTotal,     \* totalFrames
    faFrame,     \* frame of the next call
    faStart,     \* the node array before frame 0
    faSeparated, \* the node array of the last call just before its bounds phase
    faDegrees,   \* the degrees array createFA2Nodes was given
    drags,       \* number of drag overrides so far
    \* ---- NetworkGraph, the animation driver ----
    mountState,      \* "new", "mounted" or "unmounted"
    spilloverMatrix, \* the prop the effects last ran for
    animRef,         \* animRef.current: nodes, frameId, frame
    rafPending,      \* callbacks requested from the frame scheduler, not yet run
    cleanupSet,      \* the layout effect's last run returned its cleanup
    nodePositions,   \* React state: the published positions
    layoutReady,     \* React state
    driverLog,       \* history: run number, calls made, last frame argument, ...
    \* ---- fa2Iterate, its phase multiplier over a run of calls ----
    phTotal,     \* totalFrames
    phFrame,     \* frame of the next call
    phValue,     \* phaseMultiplier of the last call, an exact fraction
    \* ---- fa2Iterate, one call phase by phase ----
    stInput,     \* the arguments: nodes, edges, cfg, frame, totalFrames
    stStage,     \* the phase about to run
    stNodes,     \* the node array as the phases so far have left it
    stPair       \* index of the next pair of the overlap loop

graphVars == <<matrix, countries, adjDone, minWeight, edges, edgesDone>>
lvVars == <<lpc, community, sigmaTot, sigmaIn, iter, visit, moved, louvainOut>>
bcVars == <<threshold, bpc, bcSource, bc, bcOut>>
faVars == <<faNodes, faEdges, faConfig, faTotal, faFrame, faStart, faSeparated,
           faDegrees, drags>>
drVars == <<mountState, spilloverMatrix, animRef, rafPending, cleanupSet,
           nodePositions, layoutReady, driverLog>>
phVars == <<phTotal, phFrame, phValue>>
stVars == <<stInput, stStage, stNodes, stPair>>
vars == <<graphVars, adj, nodeCount, lvVars, bcVars, faVars, drVars, phVars, stVars>>

----------------------------------------------------------------------------
(* Bounds of the model *)
MaxN == 3          \* longest code list / largest node count
MaxW == 2          \* largest weight, in weight units
MaxEntries == 2    \* most entries present in the directed mapping
SymN == 4          \* largest node count handed to louvainCommunities / betweennessCentrality
SymEdges == 3      \* most non-zero pairs of an adjacency matrix handed to louvainCommunities
FaN == 2           \* largest node array handed to fa2Iterate
MaxDrags == 1      \* most drag overrides during one layout run
MaxSupplies == 1   \* most changes of the spilloverMatrix prop after mounting
MaxTotal == 20      \* largest totalFrames of the runs that record the phase multiplier
FaFrames == 4      \* totalFrames of a layout run

CodeNames == <<"A", "B", "C", "D", "E", "F">>
CodeList(n) == [k \in 1..n |-> CodeNames[k]]
CodeSet(n) == {CodeNames[k] : k \in 1..n}

----------------------------------------------------------------------------
(* Arithmetic helpers *)
Max2(a, b) == IF a >= b THEN a ELSE b
Min2(a, b) == IF a <= b THEN a ELSE b
Abs(a) == IF a < 0 THEN -a ELSE a

RECURSIVE Gcd(_, _)
Gcd(a, b) == IF b = 0 THEN a ELSE Gcd(b, a % b)

\* the exact quotient a / b (b > 0) as a reduced fraction
Ratio(a, b) ==
    LET g == Gcd(Abs(a), b)
    IN  [num |-> a \div g, den |-> b \div g]

RZero == [num |-> 0, den |-> 1]
ROne == [num |-> 1, den |-> 1]
RLeq(p, q) == p.num * q.den <= q.num * p.den

----------------------------------------------------------------------------
(* graph-algorithms.ts: reading the directed mapping *)

\* countries[i], i counted from 0 as in the source
At(cs, i) == cs[i + 1]

\* matrix[ci] : the row, or "no row" (undefined)
HasRow(m, ci) == ci \in DOMAIN m

\* row[cj] ?? 0
RowGet(row, cj) == IF cj \in DOMAIN row THEN row[cj] ELSE 0

\* matrix[cj]?.[ci] ?? 0
OptGet(m, cj, ci) == IF HasRow(m, cj) THEN RowGet(m[cj], ci) ELSE 0

\* the value the inner loop body computes for the pair (i, j), i < j, when
\* it is reached: Math.max(forward, backward)
SymWeight(m, cs, i, j) ==
    Max2(RowGet(m[At(cs, i)], At(cs, j)), OptGet(m, At(cs, j), At(cs, i)))

\* the outer loop skips row i altogether when matrix[ci] is falsy
RowVisited(m, cs, i) == HasRow(m, At(cs, i))

\* variant: the loop body writes adj[i][j] only
BuildSymmetricAdjacencyUpperOnly(m, cs) ==
    LET n == Len(cs)
    IN  [i \in 0..(n - 1) |-> [j \in 0..(n - 1) |->
            IF i < j /\ RowVisited(m, cs, i) THEN SymWeight(m, cs, i, j) ELSE 0]]

\* buildSymmetricAdjacency(matrix, countries): the matrix starts all zero and
\* the loop body writes adj[i][j] and adj[j][i] for the pairs i < j it reaches
BuildSymmetricAdjacency(m, cs) ==
    LET n == Len(cs)
        Upper(i, j) == IF RowVisited(m, cs, i) THEN SymWeight(m, cs, i, j) ELSE 0
    IN  [i \in 0..(n - 1) |-> [j \in 0..(n - 1) |->
            IF i < j THEN Upper(i, j)
            ELSE IF j < i THEN Upper(j, i)
            ELSE 0]]

----------------------------------------------------------------------------
(* graph-algorithms.ts: buildEdgeList *)

\* first pass: the pairs kept, in loop order (i ascending, then j ascending)
RECURSIVE RawEdgesFrom(_, _, _, _, _)
RawEdgesFrom(m, cs, mw, i, j) ==
    LET n == Len(cs)
    IN  IF i >= n THEN <<>>
        ELSE IF j >= n \/ ~RowVisited(m, cs, i)
             THEN RawEdgesFrom(m, cs, mw, i + 1, i + 2)
        ELSE LET w == SymWeight(m, cs, i, j)
                 rest == RawEdgesFrom(m, cs, mw, i, j + 1)
             IN  IF w >= mw THEN <<[i |-> i, j |-> j, w |-> w]>> \o rest
                 ELSE rest

\* variant: "w > minWeight" in place of "w >= minWeight" (whole weights)
RawEdgesAbove(m, cs, mw) == RawEdgesFrom(m, cs, mw + 1, 0, 1)

RawEdges(m, cs, mw) == RawEdgesFrom(m, cs, mw, 0, 1)

\* variant: "maxWeight = w" in place of "maxWeight = Math.max(maxWeight, w)"
MaxWeightLast(raw, k) == IF k = 0 THEN 0 ELSE raw[k].w

\* maxWeight starts at 0 and takes Math.max with every kept weight
RECURSIVE MaxWeightOf(_, _)
MaxWeightOf(raw, k) ==
    IF k = 0 THEN 0 ELSE Max2(MaxWeightOf(raw, k - 1), raw[k].w)

\* maxWeight > 0 ? w / maxWeight : 0
NormalizedWeight(w, maxWeight) ==
    IF maxWeight > 0 THEN Ratio(w, maxWeight) ELSE RZero

\* second pass
BuildEdgeList(m, cs, mw) ==
    LET raw == RawEdges(m, cs, mw)
        maxWeight == MaxWeightOf(raw, Len(raw))
    IN  [k \in 1..Len(raw) |->
            [source |-> raw[k].i,
             target |-> raw[k].j,
             sourceCode |-> At(cs, raw[k].i),
             targetCode |-> At(cs, raw[k].j),
             weight |-> raw[k].w,
             normalizedWeight |-> NormalizedWeight(raw[k].w, maxWeight)]]

----------------------------------------------------------------------------
(* graph-algorithms.ts: louvainCommunities *)

MAX_ITERATIONS == 15

\* sum of f[0] .. f[k-1]
RECURSIVE SumTo(_, _)
SumTo(f, k) == IF k = 0 THEN 0 ELSE SumTo(f, k - 1) + f[k - 1]

\* totalWeight: the upper triangle only
TotalWeight(a, n) ==
    SumTo([i \in 0..(n - 1) |-> SumTo([j \in 0..(n - 1) |-> IF j > i THEN a[i][j] ELSE 0], n)], n)

\* degree[i]: the whole row
Degree(a, n, i) == SumTo(a[i], n)

\* variant: every node its own community, as the comment on line 56 words it
FallbackOwn(n) == [i \in 0..(n - 1) |-> i]

\* the zero-weight return value
Fallback(n) == [i \in 0..(n - 1) |-> i % 4]

InSeq(q, x) == \E k \in 1..Len(q) : q[k] = x

\* keys of neighborComms in insertion order, after j = 0 .. upto-1 were scanned
RECURSIVE NeighborKeys(_, _, _, _)
NeighborKeys(a, comm, i, upto) ==
    IF upto = 0 THEN <<>>
    ELSE LET prev == NeighborKeys(a, comm, i, upto - 1)
             j == upto - 1
         IN  IF a[i][j] > 0 /\ i # j /\ ~InSeq(prev, comm[j])
             THEN Append(prev, comm[j])
             ELSE prev

\* neighborComms.get(c) ?? 0
NeighborWeight(a, n, comm, i, c) ==
    SumTo([j \in 0..(n - 1) |-> IF a[i][j] > 0 /\ i # j /\ comm[j] = c THEN a[i][j] ELSE 0], n)

\* variant: among the positive gains the smallest counts as the best
GainLeastFirst(wic, sTot, ki, m2) ==
    IF wic * m2 - sTot * ki > 0 THEN m2 * m2 - (wic * m2 - sTot * ki)
    ELSE wic * m2 - sTot * ki

\* variant: the gain is the weight into the community alone
GainWeightOnly(wic, sTot, ki, m2) == wic * m2

\* delta * m2, an integer: (wic - sigmaTot[c] * ki / m2) * m2
GainTimesM2(wic, sTot, ki, m2) == wic * m2 - sTot * ki

\* the scan "for (const [c, wic] of neighborComms)" from key k on, carrying
\* best = [comm, delta * m2]
RECURSIVE BestScan(_, _, _, _, _, _, _, _, _)
BestScan(a, n, comm, sTot, i, m2, keys, k, best) ==
    IF k > Len(keys) THEN best
    ELSE LET c == keys[k]
             d == GainTimesM2(NeighborWeight(a, n, comm, i, c), sTot[c], Degree(a, n, i), m2)
         IN  BestScan(a, n, comm, sTot, i, m2, keys, k + 1,
                      IF d > best.delta THEN [comm |-> c, delta |-> d] ELSE best)

\* bestComm for node i, sTot being sigmaTot after i's removal
BestComm(a, n, comm, sTot, i) ==
    BestScan(a, n, comm, sTot, i, 2 * TotalWeight(a, n),
             NeighborKeys(a, comm, i, n), 1, [comm |-> comm[i], delta |-> 0]).comm

\* variant: the node's degree is not added to its new community
InsertedNowhere(tot, c, ki) == tot

\* sigmaTot[bestComm] += ki
Inserted(tot, c, ki) == [tot EXCEPT ![c] = @ + ki]

\* variant: "if (!moved) break" is dropped
LoopContinuesUnconditionally(mv, it) == it + 1 < MAX_ITERATIONS

\* after a pass: "if (!moved) break", then "iter++" and "iter < MAX_ITERATIONS"
LoopContinues(mv, it) == mv /\ it + 1 < MAX_ITERATIONS

\* [...new Set(community)]: the distinct ids in order of first occurrence
RECURSIVE UniqueComms(_, _)
UniqueComms(comm, upto) ==
    IF upto = 0 THEN <<>>
    ELSE LET prev == UniqueComms(comm, upto - 1)
         IN  IF InSeq(prev, comm[upto - 1]) THEN prev ELSE Append(prev, comm[upto - 1])

IndexIn(q, x) == CHOOSE k \in 1..Len(q) : q[k] = x

\* variant: the array is returned without renumbering
RenumberSkipped(comm, n) == comm

\* community.map(c => remap.get(c))
Renumber(comm, n) ==
    LET u == UniqueComms(comm, n)
    IN  [i \in 0..(n - 1) |-> IndexIn(u, comm[i]) - 1]

----------------------------------------------------------------------------
(* graph-algorithms.ts: betweennessCentrality *)

RAdd(p, q) == Ratio(p.num * q.den + q.num * p.den, p.den * q.den)
RMul(p, q) == Ratio(p.num * q.num, p.den * q.den)
RDiv(p, q) == Ratio(p.num * q.den, p.den * q.num)
RInt(k) == [num |-> k, den |-> 1]

\* the edge test of the traversal: "adj[v][w] < threshold || v === w" skips
Traversed(a, thr, v, w) == ~(a[v][w] < thr \/ v = w)

\* the loop "for (let w = 0; w < n; w++)" of one dequeued v, from w on
RECURSIVE ScanNeighbors(_, _, _, _, _, _)
ScanNeighbors(a, n, thr, v, w, st) ==
    IF w >= n THEN st
    ELSE IF ~Traversed(a, thr, v, w) THEN ScanNeighbors(a, n, thr, v, w + 1, st)
    ELSE LET first == st.dist[w] < 0
             q1 == IF first THEN Append(st.queue, w) ELSE st.queue
             d1 == IF first THEN [st.dist EXCEPT ![w] = st.dist[v] + 1] ELSE st.dist
             via == d1[w] = st.dist[v] + 1
             s1 == IF via THEN [st.sigma EXCEPT ![w] = @ + st.sigma[v]] ELSE st.sigma
             p1 == IF via THEN [st.pred EXCEPT ![w] = Append(@, v)] ELSE st.pred
         IN  ScanNeighbors(a, n, thr, v, w + 1,
                 [st EXCEPT !.queue = q1, !.dist = d1, !.sigma = s1, !.pred = p1])

\* while (queue.length > 0)
RECURSIVE Traverse(_, _, _, _)
Traverse(a, n, thr, st) ==
    IF st.queue = <<>> THEN st
    ELSE LET v == Head(st.queue)
             popped == [st EXCEPT !.queue = Tail(st.queue), !.stack = Append(st.stack, v)]
         IN  Traverse(a, n, thr, ScanNeighbors(a, n, thr, v, 0, popped))

\* the state of one source s before its traversal
SourceStart(n, s) ==
    [queue |-> <<s>>,
     stack |-> <<>>,
     dist  |-> [w \in 0..(n - 1) |-> IF w = s THEN 0 ELSE -1],
     sigma |-> [w \in 0..(n - 1) |-> IF w = s THEN 1 ELSE 0],
     pred  |-> [w \in 0..(n - 1) |-> <<>>]]

\* variant: the credit is not weighted by the path counts
ShareUnweighted(sv, sw, dw) == RAdd(ROne, dw)

\* (sigma[v] / sigma[w]) * (1 + delta[w])
Share(sv, sw, dw) == RMul(Ratio(sv, sw), RAdd(ROne, dw))

\* for (const v of predecessors[w]) delta[v] += (sigma[v] / sigma[w]) * (1 + delta[w])
RECURSIVE Credit(_, _, _, _, _)
Credit(sigma, preds, w, k, delta) ==
    IF k > Len(preds) THEN delta
    ELSE LET v == preds[k]
             share == Share(sigma[v], sigma[w], delta[w])
         IN  Credit(sigma, preds, w, k + 1, [delta EXCEPT ![v] = RAdd(@, share)])

\* variant: the test "w !== s" is dropped
CountsSource(w, s) == TRUE

\* whether the popped node w of source s adds its delta to bc[w]
Counts(w, s) == w # s

\* while (stack.length > 0): acc = [delta, bc]
RECURSIVE BackPropagate(_, _, _, _)
BackPropagate(st, s, top, acc) ==
    IF top = 0 THEN acc
    ELSE LET w == st.stack[top]
             delta1 == Credit(st.sigma, st.pred[w], w, 1, acc.delta)
             bc1 == IF Counts(w, s) THEN [acc.bc EXCEPT ![w] = RAdd(@, delta1[w])] ELSE acc.bc
         IN  BackPropagate(st, s, top - 1, [delta |-> delta1, bc |-> bc1])

\* one iteration of "for (let s = 0; s < n; s++)": bc after source s
ProcessSource(a, n, thr, s, bc0) ==
    LET st == Traverse(a, n, thr, SourceStart(n, s))
    IN  BackPropagate(st, s, Len(st.stack),
                      [delta |-> [w \in 0..(n - 1) |-> RZero], bc |-> bc0]).bc

\* the largest raw score
RECURSIVE MaxScore(_, _)
MaxScore(b, k) ==
    IF k = 0 THEN RZero
    ELSE LET m == MaxScore(b, k - 1)
         IN  IF RLeq(b[k - 1], m) THEN m ELSE b[k - 1]

\* Math.max(...bc, 1e-10) is the floor 1e-10 exactly when no raw score reaches
\* it; a raw score is 0 or a sum of fractions with denominators below n!, so
\* for the graphs of this model that is when every score is 0
FloorApplies(b, n) == MaxScore(b, n).num = 0

\* variant: the raw scores are returned
NormalizeSkipped(b, n) == b

\* bc.map(v => v / maxBC); under the floor every v is 0 and 0 / 1e-10 = 0
Normalize(b, n) ==
    [w \in 0..(n - 1) |->
        IF FloorApplies(b, n) THEN RZero ELSE RDiv(b[w], MaxScore(b, n))]

----------------------------------------------------------------------------
(* force-atlas2.ts: numbers                                                *)
(*                                                                         *)
(* A double is modelled as a fixed-point number: an integer count of       *)
(* 1/Unit, every operation rounding toward zero.  All intermediate values  *)
(* stay below 2^31.                                                        *)

Unit == 10 * 10 * 10
Lim == 2147483646 + 1

\* the function f itself, its values computed once
Whole(f) == CHOOSE g \in {f} : g = f

Sgn(a) == IF a < 0 THEN -1 ELSE IF a > 0 THEN 1 ELSE 0

\* a * b = q * c + r with 0 <= r < c, by doubling over the bits of b;
\* for c <= Lim / 4, so that 2 * r + a % c stays below Lim
RECURSIVE LongMul(_, _, _)
LongMul(a, b, c) ==
    IF b = 0 THEN [q |-> 0, r |-> 0]
    ELSE LET h == LongMul(a, b \div 2, c)
             s == 2 * h.r + (b % 2) * (a % c)
         IN  [q |-> 2 * h.q + (b % 2) * (a \div c) + s \div c, r |-> s % c]

\* floor(a * b / c) for a, b >= 0 < c without an intermediate above Lim;
\* exact for c <= Lim / 4, beyond that a and c are quartered first
RECURSIVE MulDivNat(_, _, _)
MulDivNat(a, b, c) ==
    IF a = 0 \/ b = 0 THEN 0
    ELSE IF a <= Lim \div b THEN (a * b) \div c
    ELSE IF c > Lim \div 4 THEN MulDivNat(a \div 4, b, c \div 4)
    ELSE LongMul(Max2(a, b), Min2(a, b), c).q

\* a * b / c, rounded toward zero
MulDiv(a, b, c) == Sgn(a) * Sgn(b) * Sgn(c) * MulDivNat(Abs(a), Abs(b), Abs(c))

Mul(a, b) == MulDiv(a, b, Unit)
Div(a, b) == MulDiv(a, Unit, b)

\* floor(sqrt(n)) for 0 <= n <= Lim, lo * lo <= n < hi * hi
RECURSIVE SqrtBetween(_, _, _)
SqrtBetween(n, lo, hi) ==
    IF hi - lo <= 1 THEN lo
    ELSE LET mid == (lo + hi) \div 2
         IN  IF mid * mid <= n THEN SqrtBetween(n, mid, hi) ELSE SqrtBetween(n, lo, mid)

ISqrt(n) == SqrtBetween(n, 0, 46341)

\* Math.sqrt(dx * dx + dy * dy), dx and dy in units; operands beyond 32767
\* units are scaled down before squaring
Hyp(dx, dy) ==
    LET a == Abs(dx)
        b == Abs(dy)
        k == Max2(a, b) \div 32768 + 1
    IN  k * ISqrt((a \div k) * (a \div k) + (b \div k) * (b \div k))

\* Math.log(x) for x >= 1, x and the result in units: halving down to [1,2),
\* then 2 * (z + z^3/3 + z^5/5 + z^7/7) with z = (x - 1) / (x + 1)
RECURSIVE Ln(_)
Ln(x) ==
    IF x >= 2 * Unit THEN 693 + Ln(x \div 2)
    ELSE LET z == Div(x - Unit, x + Unit)
             z2 == Mul(z, z)
             z3 == Mul(z2, z)
             z5 == Mul(z3, z2)
             z7 == Mul(z5, z2)
         IN  2 * (z + z3 \div 3 + z5 \div 5 + z7 \div 7)

\* min(cap, a / c) for a >= 0 < c, in units, the quotient never formed when
\* it exceeds the cap
CapDiv(a, c, cap) ==
    IF a \div c > cap \div Unit THEN cap ELSE Min2(cap, MulDiv(a, Unit, c))

\* min(cap, a * b) for a, b >= 0, in units, likewise
CapMul(a, b, cap) ==
    IF a > 0 /\ b > (cap * Unit) \div a THEN cap ELSE Min2(cap, Mul(a, b))

----------------------------------------------------------------------------
(* force-atlas2.ts: createFA2Nodes and fa2Iterate *)

DEFAULT_CONFIG ==
    [scalingRatio |-> 10 * Unit,
     gravity |-> Unit,
     edgeWeightInfluence |-> 1,
     linLogMode |-> TRUE,
     strongGravity |-> FALSE,
     outboundAttractionDistribution |-> FALSE,
     slowingRatio |-> 2 * Unit,
     jitterTolerance |-> Unit]

\* the partial configuration the animation driver passes, merged over the
\* defaults ({ ...DEFAULT_CONFIG, ...config })
DriverConfig ==
    [DEFAULT_CONFIG EXCEPT !.scalingRatio = 50 * Unit,
                           !.gravity = (5 * Unit) \div 2,
                           !.linLogMode = TRUE,
                           !.jitterTolerance = Unit,
                           !.slowingRatio = (3 * Unit) \div 2]

\* createFA2Nodes(positions, degrees): "degrees[i] || 0" is degrees[i] when
\* that is a non-zero number and 0 otherwise
CreateFA2Nodes(positions, degrees) ==
    [i \in DOMAIN positions |->
        [x |-> positions[i].x, y |-> positions[i].y,
         dx |-> 0, dy |-> 0, oldDx |-> 0, oldDy |-> 0,
         mass |-> (IF i \in DOMAIN degrees THEN degrees[i] ELSE 0) + 1,
         convergence |-> Unit]]

RSub(p, q) == Ratio(p.num * q.den - q.num * p.den, p.den * q.den)
RLess(p, q) == p.num * q.den < q.num * p.den

\* variant: the third phase rises from 0.3 instead of decaying to it
PhaseMultiplierRising(frame, totalFrames) ==
    LET progress == Ratio(frame, totalFrames)
    IN  IF RLess(progress, Ratio(2, 10)) THEN RInt(2)
        ELSE IF RLess(progress, Ratio(67, 100)) THEN RInt(1)
        ELSE RAdd(Ratio(3, 10),
                  RMul(Ratio(7, 10), RDiv(RSub(progress, Ratio(67, 100)), Ratio(33, 100))))

\* lines 79-87, exactly
PhaseMultiplier(frame, totalFrames) ==
    LET progress == Ratio(frame, totalFrames)
    IN  IF RLess(progress, Ratio(2, 10)) THEN RInt(2)
        ELSE IF RLess(progress, Ratio(67, 100)) THEN RInt(1)
        ELSE RAdd(Ratio(3, 10),
                  RMul(Ratio(7, 10),
                       RSub(ROne, RDiv(RSub(progress, Ratio(67, 100)), Ratio(33, 100)))))

\* the same in units
PhaseUnits(frame, totalFrames) ==
    LET pm == PhaseMultiplier(frame, totalFrames)
    IN  (pm.num * Unit) \div pm.den

\* lines 90-95
ResetDisplacements(nodes) ==
    Whole([i \in DOMAIN nodes |->
        [nodes[i] EXCEPT !.oldDx = nodes[i].dx, !.oldDy = nodes[i].dy,
                         !.dx = 0, !.dy = 0]])

\* "Math.sqrt(dx * dx + dy * dy) || 0.01": 0.01 replaces a distance of 0 only
FlooredDist(dx, dy) ==
    LET d == Hyp(dx, dy) IN IF d = 0 THEN Unit \div 100 ELSE d

\* the pairs (i, j), i < j < n, in the order of the nested loops
RECURSIVE PairsFrom(_, _, _)
PairsFrom(n, i, j) ==
    IF i >= n THEN <<>>
    ELSE IF j >= n THEN PairsFrom(n, i + 1, i + 2)
    ELSE <<(<<i, j>>)>> \o PairsFrom(n, i, j + 1)

PairSeq(n) == PairsFrom(n, 0, 1)

NodeCountOf(nodes) == Cardinality(DOMAIN nodes)

\* line 106: scalingRatio * nodes[i].mass * nodes[j].mass / dist
RepulsionForce(sr, mi, mj, dist) == MulDiv(sr * mi * mj, Unit, dist)

\* lines 101-113 for one pair
RepulsePair(nodes, sr, i, j) ==
    Whole(LET dx == nodes[j].x - nodes[i].x
        dy == nodes[j].y - nodes[i].y
        dist == FlooredDist(dx, dy)
        force == RepulsionForce(sr, nodes[i].mass, nodes[j].mass, dist)
        fx == MulDiv(dx, force, dist)
        fy == MulDiv(dy, force, dist)
    IN  [nodes EXCEPT ![i].dx = @ - fx, ![i].dy = @ - fy,
                      ![j].dx = @ + fx, ![j].dy = @ + fy])

\* lines 99-115
RECURSIVE Repulsion(_, _, _, _)
Repulsion(nodes, sr, pairs, k) ==
    IF k > Len(pairs) THEN nodes
    ELSE Repulsion(RepulsePair(nodes, sr, pairs[k][1], pairs[k][2]), sr, pairs, k + 1)

\* Math.pow(edge.weight, cfg.edgeWeightInfluence) for the exponents 0 and 1
PowWeight(w, e) == IF e = 0 THEN Unit ELSE w

\* lines 119-144 for one edge
AttractEdge(nodes, edge, cfg) ==
    Whole(LET s == nodes[edge.source]
        t == nodes[edge.target]
        dx == t.x - s.x
        dy == t.y - s.y
        dist == FlooredDist(dx, dy)
        pw == PowWeight(edge.weight, cfg.edgeWeightInfluence)
        f0 == IF cfg.linLogMode THEN Mul(Ln(Unit + dist), pw) ELSE Mul(dist, pw)
        force == IF cfg.outboundAttractionDistribution THEN f0 \div s.mass ELSE f0
        fx == MulDiv(dx, force, dist)
        fy == MulDiv(dy, force, dist)
    IN  [nodes EXCEPT ![edge.source].dx = @ + fx, ![edge.source].dy = @ + fy,
                      ![edge.target].dx = @ - fx, ![edge.target].dy = @ - fy])

\* lines 118-145
RECURSIVE Attraction(_, _, _, _)
Attraction(nodes, es, cfg, k) ==
    IF k > Len(es) THEN nodes
    ELSE Attraction(AttractEdge(nodes, es[k], cfg), es, cfg, k + 1)

CenterX == 500 * Unit
CenterY == 300 * Unit

\* lines 150-164
Gravity(nodes, cfg, pm) ==
    Whole([i \in DOMAIN nodes |->
        LET dx == nodes[i].x - CenterX
            dy == nodes[i].y - CenterY
            dist == FlooredDist(dx, dy)
            gravForce == IF cfg.strongGravity THEN cfg.gravity * nodes[i].mass
                         ELSE MulDiv(cfg.gravity * nodes[i].mass, Unit, dist)
            pull == Mul(gravForce, pm)
        IN  [nodes[i] EXCEPT !.dx = @ - MulDiv(dx, pull, dist),
                             !.dy = @ - MulDiv(dy, pull, dist)]])

\* lines 171-174
Swinging(nd) == Hyp(nd.dx - nd.oldDx, nd.dy - nd.oldDy)

\* lines 175-178
EffectiveTraction(nd) == Hyp(nd.dx + nd.oldDx, nd.dy + nd.oldDy) \div 2

\* variant: the quotient without "Math.min(1, ...)"
ConvergenceUncapped(nd, cfg) ==
    Div(Mul(Mul(cfg.jitterTolerance, cfg.jitterTolerance), EffectiveTraction(nd)),
        Swinging(nd) + Unit \div 100)

\* lines 184-187
Convergence(nd, cfg) ==
    CapDiv(Mul(Mul(cfg.jitterTolerance, cfg.jitterTolerance), EffectiveTraction(nd)),
           Swinging(nd) + Unit \div 100, Unit)

\* lines 170-188: the per-node convergence
AdaptiveSpeed(nodes, cfg) ==
    Whole([i \in DOMAIN nodes |-> [nodes[i] EXCEPT !.convergence = Convergence(nodes[i], cfg)]])

\* the largest of f[0] .. f[k-1], 0 when there is none
RECURSIVE MaxTo(_, _)
MaxTo(f, k) == IF k = 0 THEN 0 ELSE Max2(MaxTo(f, k - 1), f[k - 1])

\* lines 167-193: clampedSpeed.  The two totals are kept in a coarser unit
\* (every term divided by "coarse") when they would not fit below Lim
ClampedSpeed(nodes, cfg) ==
    LET n == NodeCountOf(nodes)
        sw == [i \in 0..(n - 1) |-> Swinging(nodes[i])]
        tr == [i \in 0..(n - 1) |-> EffectiveTraction(nodes[i])]
        heaviest == MaxTo([i \in 0..(n - 1) |-> nodes[i].mass], n)
        peak == Max2(MaxTo(sw, n), MaxTo(tr, n))
        coarse == IF n = 0 THEN 1 ELSE peak \div (Lim \div (4 * n * heaviest)) + 1
        totalSwing == SumTo([i \in 0..(n - 1) |-> nodes[i].mass * (sw[i] \div coarse)], n)
        totalEffectiveTraction ==
            SumTo([i \in 0..(n - 1) |-> nodes[i].mass * (tr[i] \div coarse)], n)
    IN  CapDiv(Mul(Mul(cfg.jitterTolerance, cfg.jitterTolerance), totalEffectiveTraction),
               totalSwing + (Unit \div 100) \div coarse + (IF coarse > 10 THEN 1 ELSE 0),
               10 * Unit)

\* variant: the displacement is not limited to 10
LimitedLengthUncapped(nd, cfg, clampedSpeed, displacement) ==
    Mul(Div(Mul(clampedSpeed, nd.convergence), cfg.slowingRatio), displacement)

\* "Math.min(maxDisplacement, 10)" of lines 201-205, for a displacement > 0
LimitedLength(nd, cfg, clampedSpeed, displacement) ==
    CapMul(Div(Mul(clampedSpeed, nd.convergence), cfg.slowingRatio), displacement, 10 * Unit)

\* lines 196-209
ApplyDisplacements(nodes, cfg, clampedSpeed) ==
    Whole([i \in DOMAIN nodes |->
        LET displacement == Hyp(nodes[i].dx, nodes[i].dy)
            len == LimitedLength(nodes[i], cfg, clampedSpeed, displacement)
        IN  IF displacement <= 0 THEN nodes[i]
            ELSE [nodes[i] EXCEPT !.x = @ + MulDiv(nodes[i].dx, len, displacement),
                                  !.y = @ + MulDiv(nodes[i].dy, len, displacement)]])

MinSeparation == 65 * Unit

\* the test of line 218
Overlapping(dist) == dist < MinSeparation /\ dist > Unit \div 100

\* lines 215-226 for one pair
SeparatePair(nodes, i, j) ==
    Whole(LET dx == nodes[j].x - nodes[i].x
        dy == nodes[j].y - nodes[i].y
        dist == Hyp(dx, dy)
        push == (MinSeparation - dist) \div 2
        ux == MulDiv(dx, push, dist)
        uy == MulDiv(dy, push, dist)
    IN  IF Overlapping(dist)
        THEN [nodes EXCEPT ![i].x = @ - ux, ![i].y = @ - uy,
                           ![j].x = @ + ux, ![j].y = @ + uy]
        ELSE nodes)

\* lines 213-228
RECURSIVE Separation(_, _, _)
Separation(nodes, pairs, k) ==
    IF k > Len(pairs) THEN nodes
    ELSE Separation(SeparatePair(nodes, pairs[k][1], pairs[k][2]), pairs, k + 1)

Margin == 60 * Unit
BoundMaxX == 940 * Unit
BoundMaxY == 540 * Unit

\* variant: the correction points away from the box
BoundsPullOutward(overflow) == 0 - MulDiv(overflow, 6, 10)

\* (overflow) * boundsForce, boundsForce = 0.6
BoundsPull(overflow) == MulDiv(overflow, 6, 10)

\* lines 237-238, or 239-240, for one coordinate: the two tests in sequence
SoftBound(v, lo, hi) ==
    LET v1 == IF v < lo THEN v + BoundsPull(lo - v) ELSE v
    IN  IF v1 > hi THEN v1 - BoundsPull(v1 - hi) ELSE v1

\* lines 236-241
SoftBounds(nodes) ==
    Whole([i \in DOMAIN nodes |->
        [nodes[i] EXCEPT !.x = SoftBound(@, Margin, BoundMaxX),
                         !.y = SoftBound(@, Margin, BoundMaxY)]])

\* lines 72-164: the accumulated forces
Fa2Forces(nodes, es, cfg, frame, totalFrames) ==
    LET pm == PhaseUnits(frame, totalFrames)
        pairs == PairSeq(NodeCountOf(nodes))
        repelled == Repulsion(ResetDisplacements(nodes), Mul(cfg.scalingRatio, pm), pairs, 1)
    IN  Gravity(Attraction(repelled, es, cfg, 1), cfg, pm)

\* lines 72-209: after the displacement phase
Fa2Displaced(nodes, es, cfg, frame, totalFrames) ==
    LET forced == Fa2Forces(nodes, es, cfg, frame, totalFrames)
    IN  ApplyDisplacements(AdaptiveSpeed(forced, cfg), cfg, ClampedSpeed(forced, cfg))

\* lines 72-228: after the overlap phase
Fa2Separated(nodes, es, cfg, frame, totalFrames) ==
    Separation(Fa2Displaced(nodes, es, cfg, frame, totalFrames),
               PairSeq(NodeCountOf(nodes)), 1)

\* fa2Iterate(nodes, edges, config, frame, totalFrames): the node array after
\* the call
Fa2Iterate(nodes, es, cfg, frame, totalFrames) ==
    SoftBounds(Fa2Separated(nodes, es, cfg, frame, totalFrames))

----------------------------------------------------------------------------
(* Values of the variables an operation does not use *)

GraphIdle ==
    /\ matrix = <<>>
    /\ countries = <<>>
    /\ adjDone = FALSE
    /\ minWeight = 0
    /\ edges = <<>>
    /\ edgesDone = FALSE

LouvainIdle ==
    /\ lpc = "idle"
    /\ community = <<>>
    /\ sigmaTot = <<>>
    /\ sigmaIn = <<>>
    /\ iter = 0
    /\ visit = 0
    /\ moved = FALSE
    /\ louvainOut = <<>>

BcIdle ==
    /\ threshold = 0
    /\ bpc = "idle"
    /\ bcSource = 0
    /\ bc = <<>>
    /\ bcOut = <<>>

FaIdle ==
    /\ faNodes = <<>>
    /\ faEdges = <<>>
    /\ faConfig = <<>>
    /\ faTotal = 0
    /\ faFrame = 0
    /\ faStart = <<>>
    /\ faSeparated = <<>>
    /\ faDegrees = <<>>
    /\ drags = 0

NoFrame == <<0, 0>>

DriverIdle ==
    /\ mountState = "idle"
    /\ spilloverMatrix = <<>>
    /\ animRef = <<>>
    /\ rafPending = {}
    /\ cleanupSet = FALSE
    /\ nodePositions = <<>>
    /\ layoutReady = FALSE
    /\ driverLog = <<>>

PhaseIdle ==
    /\ phTotal = 0
    /\ phFrame = 0
    /\ phValue = <<>>

StagesIdle ==
    /\ stInput = <<>>
    /\ stStage = "idle"
    /\ stNodes = <<>>
    /\ stPair = 0

----------------------------------------------------------------------------
(* buildSymmetricAdjacency and buildEdgeList on directed mappings *)

Pairs(n) == {p \in CodeSet(n) \X CodeSet(n) : p[1] # p[2]}

\* the mapping with entries E (a set of ordered code pairs) weighted by w,
\* plus the rows R0 that exist but hold no entry for a listed code
MakeMatrix(E, w, R0) ==
    LET rows == {p[1] : p \in E} \cup R0
    IN  [c \in rows |-> [d \in {q[2] : q \in {p \in E : p[1] = c}} |-> w[<<c, d>>]]]

GraphInit ==
    /\ \E n \in 0..MaxN :
         \E E \in {S \in SUBSET Pairs(n) : Cardinality(S) <= MaxEntries} :
           \E w \in [E -> 0..MaxW] :
             \E R0 \in SUBSET (CodeSet(n) \ {p[1] : p \in E}) :
               /\ matrix = MakeMatrix(E, w, R0)
               /\ countries = CodeList(n)
               /\ nodeCount = n
    /\ adj = <<>>
    /\ adjDone = FALSE
    /\ minWeight = 0
    /\ edges = <<>>
    /\ edgesDone = FALSE
    /\ LouvainIdle
    /\ BcIdle
    /\ FaIdle
    /\ DriverIdle
    /\ PhaseIdle
    /\ StagesIdle

CallBuildSymmetricAdjacency ==
    /\ ~adjDone
    /\ adj' = BuildSymmetricAdjacency(matrix, countries)
    /\ adjDone' = TRUE
    /\ UNCHANGED <<matrix, countries, minWeight, edges, edgesDone, nodeCount, lvVars, bcVars, faVars, drVars, phVars, stVars>>

CallBuildEdgeList ==
    /\ adjDone
    /\ ~edgesDone
    /\ \E mw \in 0..MaxW :
         /\ minWeight' = mw
         /\ edges' = BuildEdgeList(matrix, countries, mw)
    /\ edgesDone' = TRUE
    /\ UNCHANGED <<matrix, countries, adj, adjDone, nodeCount, lvVars, bcVars, faVars, drVars, phVars, stVars>>

GraphNext == CallBuildSymmetricAdjacency \/ CallBuildEdgeList

SpecGraph == GraphInit /\ [][GraphNext]_vars

----------------------------------------------------------------------------
(* louvainCommunities on symmetric matrices *)

UPairs(n) == {p \in (0..(n - 1)) \X (0..(n - 1)) : p[1] < p[2]}

\* the symmetric, zero-diagonal matrix with weight w[p] on the pairs p of E
SymMatrix(n, E, w) ==
    [i \in 0..(n - 1) |-> [j \in 0..(n - 1) |->
        IF <<i, j>> \in E THEN w[<<i, j>>]
        ELSE IF <<j, i>> \in E THEN w[<<j, i>>]
        ELSE 0]]

FallbackN == 6     \* largest node count of the all-zero inputs

LouvainInit ==
    /\ \/ \E n \in 1..SymN :
            \E E \in {S \in SUBSET UPairs(n) : Cardinality(S) <= SymEdges} :
              \E w \in [E -> 1..MaxW] :
                /\ nodeCount = n
                /\ adj = SymMatrix(n, E, w)
       \/ \E n \in 1..FallbackN :
            /\ nodeCount = n
            /\ adj = SymMatrix(n, {}, <<>>)
    /\ lpc = "start"
    /\ community = <<>>
    /\ sigmaTot = <<>>
    /\ sigmaIn = <<>>
    /\ iter = 0
    /\ visit = 0
    /\ moved = FALSE
    /\ louvainOut = <<>>
    /\ GraphIdle
    /\ BcIdle
    /\ FaIdle
    /\ DriverIdle
    /\ PhaseIdle
    /\ StagesIdle

\* lines 48-58: totalWeight === 0 returns the fallback at once
LvFallback ==
    /\ lpc = "start"
    /\ TotalWeight(adj, nodeCount) = 0
    /\ louvainOut' = Fallback(nodeCount)
    /\ lpc' = "done"
    /\ UNCHANGED <<community, sigmaTot, sigmaIn, iter, visit, moved>>
    /\ UNCHANGED <<graphVars, adj, nodeCount, bcVars, faVars, drVars, phVars, stVars>>

\* lines 59-79: degrees, singleton communities, sigmaIn, sigmaTot, first pass
LvBegin ==
    /\ lpc = "start"
    /\ TotalWeight(adj, nodeCount) # 0
    /\ community' = [i \in 0..(nodeCount - 1) |-> i]
    /\ sigmaIn' = [i \in 0..(nodeCount - 1) |-> 0]
    /\ sigmaTot' = [i \in 0..(nodeCount - 1) |-> Degree(adj, nodeCount, i)]
    /\ iter' = 0
    /\ visit' = 0
    /\ moved' = FALSE
    /\ lpc' = "visit"
    /\ UNCHANGED louvainOut
    /\ UNCHANGED <<graphVars, adj, nodeCount, bcVars, faVars, drVars, phVars, stVars>>

\* lines 81-120: one node visit
LvVisit ==
    /\ lpc = "visit"
    /\ visit < nodeCount
    /\ LET i == visit
           n == nodeCount
           currentComm == community[i]
           ki == Degree(adj, n, i)
           kiIn == NeighborWeight(adj, n, community, i, currentComm)
           tot1 == [sigmaTot EXCEPT ![currentComm] = @ - ki]
           in1 == [sigmaIn EXCEPT ![currentComm] = @ - 2 * kiIn]
           bestComm == BestComm(adj, n, community, tot1, i)
           kiBest == NeighborWeight(adj, n, community, i, bestComm)
       IN  /\ community' = [community EXCEPT ![i] = bestComm]
           /\ sigmaTot' = Inserted(tot1, bestComm, ki)
           /\ sigmaIn' = [in1 EXCEPT ![bestComm] = @ + 2 * kiBest]
           /\ moved' = (moved \/ bestComm # currentComm)
    /\ visit' = visit + 1
    /\ UNCHANGED <<lpc, iter, louvainOut>>
    /\ UNCHANGED <<graphVars, adj, nodeCount, bcVars, faVars, drVars, phVars, stVars>>

\* lines 122-123, 78: the pass is over; another pass follows
LvNextPass ==
    /\ lpc = "visit"
    /\ visit = nodeCount
    /\ LoopContinues(moved, iter)
    /\ iter' = iter + 1
    /\ visit' = 0
    /\ moved' = FALSE
    /\ UNCHANGED <<lpc, community, sigmaTot, sigmaIn, louvainOut>>
    /\ UNCHANGED <<graphVars, adj, nodeCount, bcVars, faVars, drVars, phVars, stVars>>

\* lines 122-128: the loop ends (no move, or the pass limit) and the
\* renumbered array is returned
LvReturn ==
    /\ lpc = "visit"
    /\ visit = nodeCount
    /\ ~LoopContinues(moved, iter)
    /\ louvainOut' = Renumber(community, nodeCount)
    /\ lpc' = "done"
    /\ UNCHANGED <<community, sigmaTot, sigmaIn, iter, visit, moved>>
    /\ UNCHANGED <<graphVars, adj, nodeCount, bcVars, faVars, drVars, phVars, stVars>>

LouvainNext == LvFallback \/ LvBegin \/ LvVisit \/ LvNextPass \/ LvReturn

SpecLouvain == LouvainInit /\ [][LouvainNext]_vars

\* a change of the function's position: from the entry or the loop to the
\* loop or the return, within a pass or into the next one; every step of
\* LouvainNext is one, and one is possible exactly until the return
LvAdvance ==
    /\ lpc \in {"start", "visit"}
    /\ lpc' \in {"visit", "done"}
    /\ iter' \in {iter, iter + 1}
    /\ visit' \in {0, visit, visit + 1}

\* the function runs to its return without suspending
SpecLouvainFair == SpecLouvain /\ WF_<<lpc, iter, visit>>(LvAdvance)

----------------------------------------------------------------------------
(* betweennessCentrality on symmetric matrices *)

\* weights at the threshold on the pairs of E and just below it elsewhere
\* (with threshold 0 no weight is below it)
BcMatrix(n, E, thr) ==
    [i \in 0..(n - 1) |-> [j \in 0..(n - 1) |->
        IF <<i, j>> \in E \/ <<j, i>> \in E THEN Max2(thr, 1)
        ELSE IF i = j THEN 0
        ELSE Max2(thr - 1, 0)]]

BcInit ==
    /\ \E n \in 1..SymN :
         \E E \in SUBSET UPairs(n) :
           \E thr \in 0..MaxW :
             /\ nodeCount = n
             /\ threshold = thr
             /\ adj = BcMatrix(n, E, thr)
             /\ bc = [w \in 0..(n - 1) |-> RZero]
    /\ bpc = "sources"
    /\ bcSource = 0
    /\ bcOut = <<>>
    /\ GraphIdle
    /\ LouvainIdle
    /\ FaIdle
    /\ DriverIdle
    /\ PhaseIdle
    /\ StagesIdle

\* lines 141-185: one source
BcSourceStep ==
    /\ bpc = "sources"
    /\ bcSource < nodeCount
    /\ bc' = ProcessSource(adj, nodeCount, threshold, bcSource, bc)
    /\ bcSource' = bcSource + 1
    /\ UNCHANGED <<threshold, bpc, bcOut>>
    /\ UNCHANGED <<graphVars, adj, nodeCount, lvVars, faVars, drVars, phVars, stVars>>

\* lines 187-189: normalise and return
BcReturn ==
    /\ bpc = "sources"
    /\ bcSource = nodeCount
    /\ bcOut' = Normalize(bc, nodeCount)
    /\ bpc' = "done"
    /\ UNCHANGED <<threshold, bcSource, bc>>
    /\ UNCHANGED <<graphVars, adj, nodeCount, lvVars, faVars, drVars, phVars, stVars>>

BcNext == BcSourceStep \/ BcReturn

SpecBC == BcInit /\ [][BcNext]_vars

----------------------------------------------------------------------------
(* fa2Iterate, called for the frames 0, 1, ..., totalFrames - 1 *)

Point(px, py) == [x |-> px, y |-> py]

\* initial positions: the centre of the view box, a point inside the bound
\* box, one 0.005 beside it, one 30 beside it, one in the view box but
\* outside the bound box, and one far outside the view box
StartPoints ==
    {Point(500 * Unit, 300 * Unit),
     Point(200 * Unit, 200 * Unit),
     Point(200 * Unit + 5, 200 * Unit),
     Point(230 * Unit, 200 * Unit),
     Point(950 * Unit, 590 * Unit),
     Point(20000 * Unit, 300 * Unit)}

\* the edge list over the pairs E, in loop order, every weight 1.0
EdgeSeqOf(E, pairs) ==
    LET kept == SelectSeq(pairs, LAMBDA p : p \in E)
    IN  [m \in 1..Len(kept) |->
            [source |-> kept[m][1], target |-> kept[m][2], weight |-> Unit]]

\* lines 427-431 of the component: degrees[edge.source]++, degrees[edge.target]++
DegreesOf(n, es) ==
    [i \in 0..(n - 1) |->
        Cardinality({k \in 1..Len(es) : es[k].source = i})
          + Cardinality({k \in 1..Len(es) : es[k].target = i})]

FaInit ==
    /\ \E n \in 1..FaN :
         \E pos \in [0..(n - 1) -> StartPoints] :
           \E E \in SUBSET UPairs(n) :
             LET es == EdgeSeqOf(E, PairSeq(n))
                 start == CreateFA2Nodes(pos, DegreesOf(n, es))
             IN  /\ faNodes = start
                 /\ faStart = start
                 /\ faSeparated = start
                 /\ faEdges = es
                 /\ faDegrees = DegreesOf(n, es)
    /\ drags = 0
    /\ faConfig \in {DEFAULT_CONFIG, DriverConfig}
    /\ faTotal = FaFrames
    /\ faFrame = 0
    /\ nodeCount = 0
    /\ adj = <<>>
    /\ GraphIdle
    /\ LouvainIdle
    /\ BcIdle
    /\ DriverIdle
    /\ PhaseIdle
    /\ StagesIdle

\* one call fa2Iterate(nodes, edges, config, frame, totalFrames), then frame++
Fa2Step ==
    /\ faFrame < faTotal
    /\ LET sep == Fa2Separated(faNodes, faEdges, faConfig, faFrame, faTotal)
       IN  /\ faSeparated' = sep
           /\ faNodes' = SoftBounds(sep)
    /\ faFrame' = faFrame + 1
    /\ UNCHANGED <<faEdges, faConfig, faTotal, faStart, faDegrees, drags>>
    /\ UNCHANGED <<graphVars, adj, nodeCount, lvVars, bcVars, drVars, phVars, stVars>>

FaNext == Fa2Step

SpecFA2 == FaInit /\ [][FaNext]_vars

----------------------------------------------------------------------------
(* fa2Iterate calls interleaved with drag overrides *)

\* variant: the dragged node is replaced by a fresh node at the pointer
DraggedFresh(nodes, idx, px, py) ==
    [nodes EXCEPT ![idx] = [x |-> px, y |-> py, dx |-> 0, dy |-> 0,
                            oldDx |-> 0, oldDy |-> 0, mass |-> 1,
                            convergence |-> Unit]]

\* lines 573-574 of the component: nodes[idx].x = x; nodes[idx].y = y
Dragged(nodes, idx, px, py) ==
    [nodes EXCEPT ![idx].x = px, ![idx].y = py]

\* where the pointer drops a node: outside the view box, and the centre
DragPoints == {Point(0 - 50 * Unit, 700 * Unit), Point(CenterX, CenterY)}

\* the position arrays the runs with drags start from
DragStarts ==
    {<<Point(CenterX, CenterY)>>,
     <<Point(200 * Unit, 200 * Unit), Point(230 * Unit, 200 * Unit)>>,
     <<Point(CenterX, CenterY), Point(CenterX, CenterY)>>}

\* the array a[1..n] as positions[0..n-1]
ZeroBased(a) == [i \in 0..(Len(a) - 1) |-> a[i + 1]]

\* the first k entries of the array d
Prefix(d, k) == [i \in 0..(k - 1) |-> d[i]]

DragInit ==
    /\ \E a \in DragStarts :
         \E E \in SUBSET UPairs(Len(a)) :
           \E k \in 0..Len(a) :
             LET es == EdgeSeqOf(E, PairSeq(Len(a)))
                 degrees == Prefix(DegreesOf(Len(a), es), k)
                 start == CreateFA2Nodes(ZeroBased(a), degrees)
             IN  /\ faNodes = start
                 /\ faStart = start
                 /\ faSeparated = start
                 /\ faEdges = es
                 /\ faDegrees = degrees
    /\ drags = 0
    /\ faConfig = DriverConfig
    /\ faTotal = FaFrames
    /\ faFrame = 0
    /\ nodeCount = 0
    /\ adj = <<>>
    /\ GraphIdle
    /\ LouvainIdle
    /\ BcIdle
    /\ DriverIdle
    /\ PhaseIdle
    /\ StagesIdle

\* handleMouseMove with a node being dragged (lines 563-579): idx is the
\* index of the dragged code, the write happens when nodes[idx] exists
DragOverride ==
    /\ drags < MaxDrags
    /\ \E idx \in DOMAIN faNodes :
         \E p \in DragPoints :
           faNodes' = Dragged(faNodes, idx, p.x, p.y)
    /\ drags' = drags + 1
    /\ UNCHANGED <<faEdges, faConfig, faTotal, faFrame, faStart, faSeparated, faDegrees>>
    /\ UNCHANGED <<graphVars, adj, nodeCount, lvVars, bcVars, drVars, phVars, stVars>>

DragNext == Fa2Step \/ DragOverride

SpecDrag == DragInit /\ [][DragNext]_vars

----------------------------------------------------------------------------
(* NetworkGraph.tsx: the layout effect, animate and the frame scheduler *)

TOTAL_FRAMES == 300
FLUSH_INTERVAL == 3

\* the entries of the position table the matrices below use (lines 303-305)
INITIAL_POSITIONS ==
    [USA |-> Point(180 * Unit, 250 * Unit),
     CAN |-> Point(150 * Unit, 160 * Unit),
     MEX |-> Point(120 * Unit, 350 * Unit)]

\* Object.keys(INITIAL_POSITIONS)
PositionKeys == <<"USA", "CAN", "MEX">>

\* the default minWeight of buildEdgeList, 0.005, weights counted in 1/Unit
DefaultMinWeight == (5 * Unit) \div 1000

\* the prop: null, or a matrix with its keys in insertion order
NoMatrix == [present |-> FALSE, keys |-> <<>>, rows |-> <<>>]

TwoLinked ==
    [present |-> TRUE, keys |-> <<"USA", "CAN">>,
     rows |-> [USA |-> [CAN |-> 300], CAN |-> [USA |-> 100]]]

OneKnown ==
    [present |-> TRUE, keys |-> <<"ZZZ", "MEX">>,
     rows |-> [ZZZ |-> [MEX |-> 200], MEX |-> <<>>]]

NoneKnown ==
    [present |-> TRUE, keys |-> <<"ZZZ">>, rows |-> [ZZZ |-> <<>>]]

Matrices == {TwoLinked, OneKnown, NoneKnown}

\* line 408
CountryList(d) == SelectSeq(d.keys, LAMBDA c : c \in DOMAIN INITIAL_POSITIONS)

\* lines 422-425
InitPositions(cs) == [i \in 0..(Len(cs) - 1) |-> INITIAL_POSITIONS[cs[i + 1]]]

\* lines 439-443: weight is the edge's normalizedWeight
Fa2EdgesOf(edgeList) ==
    [k \in 1..Len(edgeList) |->
        [source |-> edgeList[k].source,
         target |-> edgeList[k].target,
         weight |-> (edgeList[k].normalizedWeight.num * Unit)
                        \div edgeList[k].normalizedWeight.den]]

\* lines 416, 427-433: the nodes of a fresh run
FreshNodes(d) ==
    LET cs == CountryList(d)
        edgeList == BuildEdgeList(d.rows, cs, DefaultMinWeight)
    IN  Whole(CreateFA2Nodes(InitPositions(cs), DegreesOf(Len(cs), edgeList)))

\* ref.nodes.map(n => ({ x: n.x, y: n.y }))
PositionsOf(nodes) == [i \in DOMAIN nodes |-> Point(nodes[i].x, nodes[i].y)]

\* variant: nothing is removed from the scheduler's list
CancelNothing(pending, id) == pending

\* cancelAnimationFrame(id)
CancelAnimationFrame(pending, id) == {cb \in pending : cb.id # id}

\* "if (animRef.current.frameId) cancelAnimationFrame(animRef.current.frameId)"
CancelCurrent(pending) ==
    IF animRef.frameId # NoFrame THEN CancelAnimationFrame(pending, animRef.frameId)
    ELSE pending

\* variant: "ref.frame > TOTAL_FRAMES"
ExhaustedLate(f) == f > TOTAL_FRAMES

\* the test "ref.frame >= TOTAL_FRAMES" of lines 447, 462 and 466
Exhausted(f) == f >= TOTAL_FRAMES

\* variant: only the final frame is published
FlushesFinalOnly(f) == Exhausted(f)

\* the test of line 462 on the incremented frame counter
Flushes(f) == f % FLUSH_INTERVAL = 0 \/ Exhausted(f)

\* variant: "ref.frame += 2"
NextFrameSkipping(f) == f + 2

\* line 460: ref.frame++
NextFrame(f) == f + 1

DriverInit ==
    /\ mountState = "new"
    /\ spilloverMatrix = NoMatrix
    /\ animRef = [nodes |-> <<>>, frameId |-> NoFrame, frame |-> 0]
    /\ rafPending = {}
    /\ cleanupSet = FALSE
    /\ nodePositions = <<>>
    /\ layoutReady = FALSE
    /\ driverLog = [run |-> 0, supplies |-> 0, stepsDone |-> 0, lastFrameArg |-> 0,
                    lag |-> 0, staleRun |-> FALSE]
    /\ nodeCount = 0
    /\ adj = <<>>
    /\ GraphIdle
    /\ LouvainIdle
    /\ BcIdle
    /\ FaIdle
    /\ PhaseIdle
    /\ StagesIdle

\* The two effects that depend on [spilloverMatrix], run for the prop d:
\* first the cleanup the layout effect returned on its previous run (lines
\* 476-478), then the layout effect (lines 405-475), then the fallback effect
\* (lines 482-493).  A frame request is named <<run, frame at the request>>.
RunEffects(d, supplies) ==
    LET cleaned == IF cleanupSet THEN CancelCurrent(rafPending) ELSE rafPending
        cs == CountryList(d)
        edgeList == BuildEdgeList(d.rows, cs, DefaultMinWeight)
        run == driverLog.run + 1
        id == <<run, 0>>
    IN  /\ spilloverMatrix' = d
        /\ IF ~d.present
           THEN /\ rafPending' = cleaned
                /\ cleanupSet' = FALSE
                /\ nodePositions' = InitPositions(PositionKeys)
                /\ layoutReady' = TRUE
                /\ driverLog' = [driverLog EXCEPT !.supplies = supplies]
                /\ UNCHANGED animRef
           ELSE IF Len(cs) = 0
           THEN /\ rafPending' = cleaned
                /\ cleanupSet' = FALSE
                /\ driverLog' = [driverLog EXCEPT !.supplies = supplies]
                /\ UNCHANGED <<animRef, nodePositions, layoutReady>>
           ELSE /\ animRef' = [nodes |-> FreshNodes(d), frameId |-> id, frame |-> 0]
                /\ layoutReady' = FALSE
                /\ nodePositions' = InitPositions(cs)
                /\ rafPending' = CancelCurrent(cleaned)
                                   \cup {[id |-> id, edges |-> Fa2EdgesOf(edgeList), run |-> run]}
                /\ cleanupSet' = TRUE
                /\ driverLog' = [driverLog EXCEPT !.run = run, !.supplies = supplies,
                                                  !.stepsDone = 0, !.lastFrameArg = 0,
                                                  !.lag = 0]

\* the component is mounted with the prop d and its effects run
Mount(d) ==
    /\ mountState = "new"
    /\ mountState' = "mounted"
    /\ RunEffects(d, 0)
    /\ UNCHANGED <<graphVars, adj, nodeCount, lvVars, bcVars, faVars, phVars, stVars>>

\* the parent passes another spilloverMatrix (null after null is no change)
SupplyMatrix(d) ==
    /\ mountState = "mounted"
    /\ driverLog.supplies < MaxSupplies
    /\ d.present \/ spilloverMatrix.present
    /\ RunEffects(d, driverLog.supplies + 1)
    /\ UNCHANGED mountState
    /\ UNCHANGED <<graphVars, adj, nodeCount, lvVars, bcVars, faVars, phVars, stVars>>

\* the component is removed: the cleanup of lines 476-478 runs if there is one
Unmount ==
    /\ mountState = "mounted"
    /\ mountState' = "unmounted"
    /\ rafPending' = IF cleanupSet THEN CancelCurrent(rafPending) ELSE rafPending
    /\ cleanupSet' = FALSE
    /\ UNCHANGED <<spilloverMatrix, animRef, nodePositions, layoutReady, driverLog>>
    /\ UNCHANGED <<graphVars, adj, nodeCount, lvVars, bcVars, faVars, phVars, stVars>>

\* the frame scheduler runs one requested callback: animate, lines 445-471,
\* with the fa2Edges of the effect run that created it
Tick ==
    /\ \E cb \in rafPending :
         LET rest == rafPending \ {cb}
             ref == animRef
             stepped == Fa2Iterate(ref.nodes, cb.edges, DriverConfig, ref.frame, TOTAL_FRAMES)
             frame2 == NextFrame(ref.frame)
             id == <<cb.run, frame2>>
             stale == driverLog.staleRun \/ cb.run # driverLog.run
         IN  IF Exhausted(ref.frame)
             THEN /\ layoutReady' = TRUE
                  /\ rafPending' = rest
                  /\ driverLog' = [driverLog EXCEPT !.staleRun = stale]
                  /\ UNCHANGED <<animRef, nodePositions>>
             ELSE /\ animRef' = [nodes |-> stepped,
                                 frame |-> frame2,
                                 frameId |-> IF Exhausted(frame2) THEN ref.frameId ELSE id]
                  /\ nodePositions' = IF Flushes(frame2) THEN PositionsOf(stepped)
                                      ELSE nodePositions
                  /\ layoutReady' = IF Exhausted(frame2) THEN TRUE ELSE layoutReady
                  /\ rafPending' = IF Exhausted(frame2) THEN rest
                                   ELSE rest \cup {[cb EXCEPT !.id = id]}
                  /\ driverLog' = [driverLog EXCEPT
                                      !.stepsDone = @ + 1,
                                      !.lastFrameArg = ref.frame,
                                      !.lag = IF Flushes(frame2) THEN 0 ELSE @ + 1,
                                      !.staleRun = stale]
    /\ UNCHANGED <<mountState, spilloverMatrix, cleanupSet>>
    /\ UNCHANGED <<graphVars, adj, nodeCount, lvVars, bcVars, faVars, phVars, stVars>>

DriverNext ==
    \/ \E d \in Matrices \cup {NoMatrix} : Mount(d)
    \/ \E d \in Matrices \cup {NoMatrix} : SupplyMatrix(d)
    \/ Unmount
    \/ Tick

SpecDriver == DriverInit /\ [][DriverNext]_vars

\* What the scheduler's list shows of a step that runs a requested callback:
\* the callback leaves the list and at most the one request it makes (for the
\* same run) enters, the prop and the effect's cleanup staying as they are.
\* Among the steps of DriverNext these are exactly the Tick steps, and the
\* action is enabled exactly when Tick is, that is when rafPending # {}.
CallbackRun ==
    /\ \E cb \in rafPending :
         \E f \in 1..TOTAL_FRAMES :
           rafPending' \in {rafPending \ {cb},
                            (rafPending \ {cb}) \cup {[cb EXCEPT !.id = <<cb.run, f>>]}}
    /\ UNCHANGED <<mountState, spilloverMatrix, cleanupSet>>

\* the frame scheduler eventually runs a callback that stays requested
SpecDriverFair == SpecDriver /\ WF_rafPending(CallbackRun)

----------------------------------------------------------------------------
(* Properties of buildSymmetricAdjacency and buildEdgeList (SpecGraph) *)

Positions == 0..(Len(countries) - 1)

\* forward / backward of the pair (i, j): the entry, 0 when the entry or its
\* whole row is absent
Forward(i, j) == OptGet(matrix, At(countries, i), At(countries, j))
Backward(i, j) == OptGet(matrix, At(countries, j), At(countries, i))

\* C1: buildSymmetricAdjacency returns an n-by-n matrix that is symmetric and
\* has a zero diagonal
C1_SymmetricZeroDiagonal ==
    adjDone =>
        /\ DOMAIN adj = Positions
        /\ \A i \in Positions :
             /\ DOMAIN adj[i] = Positions
             /\ adj[i][i] = 0
             /\ \A j \in Positions : adj[i][j] = adj[j][i]

C1_Witness ==
    /\ adjDone
    /\ \E i, j \in Positions :
         i < j /\ adj[j][i] > 0 /\ Forward(i, j) # Backward(i, j)

\* C2: for every pair i < j, adj[i][j] is max(forward, backward), also when
\* code_i has no row while code_j's row has an entry for code_i
C2_MaxOfBothDirections ==
    adjDone =>
        \A i, j \in Positions :
            i < j => adj[i][j] = Max2(Forward(i, j), Backward(i, j))

EdgeIndexes == 1..Len(edges)

\* C7: buildEdgeList returns exactly one edge for each pair i < j with
\* max(forward, backward) >= minWeight and none for another pair, and each
\* edge carries source < target, the two codes and that weight
C7_ExactlyTheKeptPairs ==
    edgesDone =>
        /\ \A i, j \in Positions :
             i < j =>
                Cardinality({k \in EdgeIndexes :
                                edges[k].source = i /\ edges[k].target = j})
                  = IF Max2(Forward(i, j), Backward(i, j)) >= minWeight THEN 1 ELSE 0
        /\ \A k \in EdgeIndexes :
             /\ edges[k].source \in Positions
             /\ edges[k].target \in Positions
             /\ edges[k].source < edges[k].target
             /\ edges[k].sourceCode = At(countries, edges[k].source)
             /\ edges[k].targetCode = At(countries, edges[k].target)
             /\ edges[k].weight =
                  Max2(Forward(edges[k].source, edges[k].target),
                       Backward(edges[k].source, edges[k].target))

\* the largest weight among the returned edges (of a non-empty result)
LargestReturned ==
    CHOOSE m \in {edges[k].weight : k \in EdgeIndexes} :
        \A k \in EdgeIndexes : edges[k].weight <= m

\* normalizedWeight = weight / LargestReturned, in [0,1], 1 on the largest
NormalizedByLargest ==
    \A k \in EdgeIndexes :
        LET nw == edges[k].normalizedWeight
        IN  /\ nw.num * LargestReturned = edges[k].weight * nw.den
            /\ nw.den > 0
            /\ 0 <= nw.num /\ nw.num <= nw.den
            /\ (edges[k].weight = LargestReturned => nw = ROne)

\* C8 as claimed: in every non-empty result each normalizedWeight is weight /
\* largest returned weight, lies in [0,1], and is exactly 1 on the largest
C8_Original ==
    (edgesDone /\ Len(edges) > 0) => NormalizedByLargest

\* C8 as amended: that holds in every result whose largest returned weight is
\* positive; in a non-empty result whose largest weight is 0 every
\* normalizedWeight is 0
C8_NormalizedWhenPositive ==
    (edgesDone /\ Len(edges) > 0) =>
        IF LargestReturned > 0 THEN NormalizedByLargest
        ELSE \A k \in EdgeIndexes : edges[k].normalizedWeight = RZero

C8_Witness ==
    /\ edgesDone
    /\ \E k, l \in EdgeIndexes :
         /\ k < l
         /\ 0 < edges[l].weight
         /\ edges[l].weight < edges[k].weight
         /\ edges[k].weight = LargestReturned

\* the pairs buildEdgeList returned, as (source, target)
ReturnedPairs == {<<edges[k].source, edges[k].target>> : k \in EdgeIndexes}

\* the pairs i < j whose entry of the symmetric matrix reaches the threshold
\* handed to buildEdgeList
AdjacentPairs ==
    {p \in Positions \X Positions : p[1] < p[2] /\ adj[p[1]][p[2]] >= minWeight}

\* C26: for a threshold t > 0 the (source, target) pairs returned by
\* buildEdgeList(matrix, codes, t) are exactly the pairs i < j with
\* adj[i][j] >= t of buildSymmetricAdjacency(matrix, codes), each edge's
\* weight is adj[source][target], and so the traversal of
\* betweennessCentrality at threshold t steps from v to w exactly when the
\* pair {v, w} is a returned edge
C26_EdgesAreAdjacencyAtThreshold ==
    (adjDone /\ edgesDone /\ minWeight > 0) =>
        /\ ReturnedPairs = AdjacentPairs
        /\ \A k \in EdgeIndexes :
             edges[k].weight = adj[edges[k].source][edges[k].target]
        /\ \A v, w \in Positions :
             Traversed(adj, minWeight, v, w) <=>
                (<<v, w>> \in ReturnedPairs \/ <<w, v>> \in ReturnedPairs)

\* a returned edge, a pair examined and left out for its weight, and a
\* pair the loops never reach although its backward entry reaches the
\* threshold
C26_Witness ==
    /\ adjDone /\ edgesDone /\ minWeight > 0
    /\ Len(edges) > 0
    /\ \E i, j \in Positions :
         i < j /\ RowVisited(matrix, countries, i)
               /\ adj[i][j] < minWeight
    /\ \E i, j \in Positions :
         i < j /\ ~RowVisited(matrix, countries, i)
               /\ Backward(i, j) >= minWeight

----------------------------------------------------------------------------
(* Properties of louvainCommunities (SpecLouvain) *)

Nodes == 0..(nodeCount - 1)

\* C3: the returned array has length n and its distinct values are exactly
\* 0 .. k-1 for some 1 <= k <= n, on both paths
C3_ContiguousIds ==
    lpc = "done" =>
        /\ DOMAIN louvainOut = Nodes
        /\ \E k \in 1..nodeCount : {louvainOut[i] : i \in Nodes} = 0..(k - 1)

\* the optimisation path ended with ids that renumbering had to change
C3_Witness ==
    /\ lpc = "done"
    /\ TotalWeight(adj, nodeCount) > 0
    /\ louvainOut # community
    /\ \E i, j \in Nodes : louvainOut[i] # louvainOut[j]

----------------------------------------------------------------------------
(* Properties of betweennessCentrality (SpecBC) *)

\* C5: every returned value lies in [0,1], and two nodes without an edge at
\* or above the threshold both get 0
C5_WithinUnitInterval ==
    bpc = "done" =>
        /\ DOMAIN bcOut = Nodes
        /\ \A w \in Nodes : RLeq(RZero, bcOut[w]) /\ RLeq(bcOut[w], ROne) /\ bcOut[w].den > 0
        /\ (nodeCount = 2 /\ adj[0][1] < threshold) =>
              (bcOut[0] = RZero /\ bcOut[1] = RZero)

\* a graph whose raw scores exceed 1 before normalisation
C5_Witness ==
    /\ bpc = "done"
    /\ \E w \in Nodes : ~RLeq(bc[w], ROne)
    /\ \E w \in Nodes : bcOut[w] = RZero

\* C6: in a 3-node graph whose only edges at or above the threshold are
\* end-middle and middle-end, the middle node gets exactly 1 and the ends 0
C6_PathMiddle ==
    (bpc = "done" /\ nodeCount = 3) =>
        \A mid, e1, e2 \in Nodes :
            ( /\ {mid, e1, e2} = Nodes
              /\ adj[mid][e1] >= threshold
              /\ adj[mid][e2] >= threshold
              /\ adj[e1][e2] < threshold )
            => (bcOut[mid] = ROne /\ bcOut[e1] = RZero /\ bcOut[e2] = RZero)

\* the path whose middle node is not the one with index 1
C6_Witness ==
    /\ bpc = "done"
    /\ nodeCount = 3
    /\ adj[0][1] >= threshold
    /\ adj[0][2] >= threshold
    /\ adj[1][2] < threshold
    /\ bcOut[0] = ROne

----------------------------------------------------------------------------
(* Properties of fa2Iterate over a full frame budget (SpecFA2) *)

FaIndexes == DOMAIN faNodes

AllFramesDone == faTotal > 0 /\ faFrame = faTotal

\* inside the soft-bound box [60,940]x[60,540]
InBox(nd) ==
    /\ Margin <= nd.x /\ nd.x <= BoundMaxX
    /\ Margin <= nd.y /\ nd.y <= BoundMaxY

\* inside the view box [0,1000]x[0,600]
InView(nd) ==
    /\ 0 <= nd.x /\ nd.x <= 1000 * Unit
    /\ 0 <= nd.y /\ nd.y <= 600 * Unit

DistanceOf(a, b) == Hyp(b.x - a.x, b.y - a.y)

\* the epsilon of the separation claim: half a unit of length
Epsilon == Unit \div 2

\* C9: after the frames 0 .. totalFrames-1, every pair of nodes that both lie
\* inside [60,940]x[60,540] is at distance at least 65 - epsilon, whatever the
\* initial positions were (coincident nodes included).
C9_SeparatedInsideBox ==
    AllFramesDone =>
        \A i \in FaIndexes : \A j \in FaIndexes :
            (i < j /\ InBox(faNodes[i]) /\ InBox(faNodes[j]))
                => DistanceOf(faNodes[i], faNodes[j]) >= MinSeparation - Epsilon

StartedInView == \A i \in DOMAIN faStart : InView(faStart[i])

SomeCallDone == faFrame > 0

\* the force of the last call and that of the call before it cancel exactly
\* (in particular when both are zero), so the effective traction is 0
ForcesCancel(nd) == nd.dx + nd.oldDx = 0 /\ nd.dy + nd.oldDy = 0

\* C11 as stated: after every call of fa2Iterate every node's convergence is
\* in (0,1], never 0 and never above 1, also for a node whose current and
\* previous forces cancel or are both zero.
C11_Original ==
    SomeCallDone =>
        \A i \in FaIndexes : 0 < faNodes[i].convergence /\ faNodes[i].convergence <= Unit

\* C11, amended: after every call of fa2Iterate every node's convergence is
\* in the closed interval [0,1], and it is exactly 0 for a node whose current
\* and previous forces cancel or are both zero.
C11_ConvergenceInClosedUnit ==
    SomeCallDone =>
        \A i \in FaIndexes :
            /\ 0 <= faNodes[i].convergence
            /\ faNodes[i].convergence <= Unit
            /\ ForcesCancel(faNodes[i]) => faNodes[i].convergence = 0

\* a single node at the centre point after a call: no force in this call or
\* the one before, convergence 0; and in the same run the cap of 1 was needed
C11_Witness ==
    /\ SomeCallDone
    /\ \E i \in FaIndexes :
         /\ faNodes[i].dx = 0 /\ faNodes[i].dy = 0
         /\ faNodes[i].oldDx = 0 /\ faNodes[i].oldDy = 0
         /\ faNodes[i].x = CenterX /\ faNodes[i].y = CenterY
         /\ faNodes[i].convergence = 0

----------------------------------------------------------------------------
(* Properties of node masses under steps and drag overrides (SpecDrag) *)

\* degrees[i], 0 when the array has no entry i
DegreeGiven(i) == IF i \in DOMAIN faDegrees THEN faDegrees[i] ELSE 0

\* C12: createFA2Nodes gives every node mass = degree + 1 >= 1, a missing
\* degree counting as 0, and after any interleaving of fa2Iterate calls and
\* drag overrides the number of nodes and every node's mass are unchanged.
C12_MassAndCountKept ==
    /\ DOMAIN faNodes = DOMAIN faStart
    /\ \A i \in DOMAIN faStart :
         /\ faStart[i].mass = DegreeGiven(i) + 1
         /\ faStart[i].mass >= 1
         /\ faNodes[i].mass = faStart[i].mass

\* all frames done with a drag override in between, one node of mass 2 and
\* one whose degree was missing, the dragged node no longer where it was put
C12_Witness ==
    /\ AllFramesDone
    /\ drags > 0
    /\ \E i \in FaIndexes : faNodes[i].mass > 1
    /\ \E i \in FaIndexes : i \notin DOMAIN faDegrees
    /\ \A i \in FaIndexes : \A p \in DragPoints : faNodes[i].x # p.x

----------------------------------------------------------------------------
(* Properties of the animation driver (SpecDriver, SpecDriverFair) *)

\* a call of fa2Iterate has just been made
StepTaken == driverLog'.stepsDone = driverLog.stepsDone + 1

\* C13: for one data snapshot the driver calls fa2Iterate with the frames
\* 0, 1, 2, ... in this order, none repeated or skipped, one call per
\* scheduler tick, and never with a frame >= TOTAL_FRAMES.
C13_FramesInOrder ==
    [][driverLog'.stepsDone # driverLog.stepsDone =>
          \/ driverLog'.stepsDone = 0
          \/ /\ StepTaken
             /\ driverLog'.lastFrameArg = driverLog.stepsDone
             /\ driverLog'.lastFrameArg < TOTAL_FRAMES]_vars

\* the second snapshot's run has made its last call, with frame 299
C13_Witness ==
    /\ mountState = "mounted"
    /\ driverLog.run = 2
    /\ driverLog.stepsDone = TOTAL_FRAMES
    /\ driverLog.lastFrameArg = TOTAL_FRAMES - 1

\* a matrix with a known country is the current prop of the mounted component
Undisturbed ==
    /\ mountState = "mounted"
    /\ spilloverMatrix.present
    /\ Len(CountryList(spilloverMatrix)) > 0

Completed ==
    /\ driverLog.stepsDone = TOTAL_FRAMES
    /\ rafPending = {}
    /\ layoutReady

\* C14: after a matrix with a known country is supplied, if no further data
\* change or unmount occurs and the scheduler runs every requested callback,
\* the driver makes exactly TOTAL_FRAMES steps, then requests no further
\* frame and layoutReady is true.  (Every behaviour has finitely many data
\* changes; from the last one on the run must complete and stay completed.)
C14_RunsToCompletion == <>[](Undisturbed => Completed)

C14_Witness == Undisturbed /\ Completed /\ animRef.frame = TOTAL_FRAMES

\* C16: the driver publishes the positions exactly after the steps that bring
\* the frame counter to a multiple of 3 and after the final step; the
\* published positions are never more than 2 steps behind, and equal the
\* engine's positions once the frame budget is exhausted.
C16_PublishedEveryThird ==
    /\ [][StepTaken =>
            IF animRef'.frame % FLUSH_INTERVAL = 0 \/ animRef'.frame >= TOTAL_FRAMES
            THEN nodePositions' = PositionsOf(animRef'.nodes)
            ELSE nodePositions' = nodePositions]_vars
    /\ [](mountState # "idle" => driverLog.lag <= 2)
    /\ []((mountState # "idle" /\ Undisturbed /\ Completed)
            => nodePositions = PositionsOf(animRef.nodes))

\* two steps after a publication, the engine's nodes away from the published ones
C16_Witness ==
    /\ mountState = "mounted"
    /\ driverLog.lag = 2
    /\ driverLog.stepsDone > FLUSH_INTERVAL
    /\ nodePositions # PositionsOf(animRef.nodes)

\* a new matrix arrives while a step of the running simulation is pending
Superseding ==
    /\ driverLog'.supplies = driverLog.supplies + 1
    /\ spilloverMatrix'.present
    /\ rafPending # {}

\* C15: when a new matrix supersedes a running simulation, the old run's
\* pending step is cancelled, the node array is replaced by fresh nodes and
\* the frame counter is reset to 0; at most one step callback is pending at
\* any moment, and no callback of the old snapshot runs on the new nodes.
C15_SupersededRunReplaced ==
    /\ [][Superseding =>
            /\ rafPending \cap rafPending' = {}
            /\ animRef'.frame = 0
            /\ animRef'.nodes = FreshNodes(spilloverMatrix')]_vars
    /\ [](Cardinality(rafPending) <= 1)
    /\ [](mountState # "idle" => ~driverLog.staleRun)

----------------------------------------------------------------------------
(* Properties of louvainCommunities' passes (SpecLouvain) *)

\* the loop of passes has been entered
InPasses == lpc # "start" /\ community # <<>>

\* the sum of degree[j] over the nodes j currently assigned to community c
DegreeSum(c) ==
    SumTo([j \in 0..(nodeCount - 1) |->
              IF community[j] = c THEN SumTo(adj[j], nodeCount) ELSE 0], nodeCount)

\* C17: after every node visit and for every community id c, sigmaTot[c] is
\* the sum of degree[j] over the nodes j currently assigned to community c.
C17_SigmaTotIsDegreeSum ==
    InPasses => \A c \in 0..(nodeCount - 1) : sigmaTot[c] = DegreeSum(c)

\* after a visit, a community of two nodes and an emptied one
C17_Witness ==
    /\ lpc = "visit"
    /\ visit > 0
    /\ \E j, k \in 0..(nodeCount - 1) : j # k /\ community[j] = community[k]
    /\ \E c \in 0..(nodeCount - 1) :
          /\ \A j \in 0..(nodeCount - 1) : community[j] # c
          /\ SumTo(adj[c], nodeCount) > 0
          /\ sigmaTot[c] = 0

\* the communities of the neighbours of node i under the assignment comm
NeighbourComms(comm, i) ==
    {comm[j] : j \in {k \in 0..(nodeCount - 1) : k # i /\ adj[i][k] > 0}}

\* weight(i, c): the weight between node i and the members of community c
WeightInto(comm, i, c) ==
    SumTo([j \in 0..(nodeCount - 1) |->
              IF j # i /\ comm[j] = c THEN adj[i][j] ELSE 0], nodeCount)

\* twice the total weight, each unordered pair counted once in the total
M2 ==
    SumTo([j \in 0..(nodeCount - 1) |-> SumTo(adj[j], nodeCount)], nodeCount)

\* m2 * gain(c) for node i, tot being sigmaTot after i's removal
ScaledGain(comm, tot, i, c) ==
    WeightInto(comm, i, c) * M2 - tot[c] * SumTo(adj[i], nodeCount)

\* the least neighbour index of node i that belongs to community c
FirstMember(comm, i, c) ==
    CHOOSE j \in 0..(nodeCount - 1) :
        /\ j # i /\ adj[i][j] > 0 /\ comm[j] = c
        /\ \A k \in 0..(j - 1) : ~(k # i /\ adj[i][k] > 0 /\ comm[k] = c)

\* the neighbouring communities of maximum gain
MaxGainComms(comm, tot, i) ==
    {c \in NeighbourComms(comm, i) :
        \A d \in NeighbourComms(comm, i) :
            ScaledGain(comm, tot, i, d) <= ScaledGain(comm, tot, i, c)}

\* the community node i belongs to after its visit, by the rule of the claim
Chosen(comm, tot, i) ==
    IF \A c \in NeighbourComms(comm, i) : ScaledGain(comm, tot, i, c) <= 0
    THEN comm[i]
    ELSE CHOOSE c \in MaxGainComms(comm, tot, i) :
            \A d \in MaxGainComms(comm, tot, i) :
                FirstMember(comm, i, c) <= FirstMember(comm, i, d)

\* sigmaTot after the removal of node i from its community
AfterRemoval(tot, comm, i) ==
    [tot EXCEPT ![comm[i]] = @ - SumTo(adj[i], nodeCount)]

\* C18: in each node visit, node i changes community only if some
\* neighbouring community has gain weight(i,c) - sigmaTot[c]*degree[i]/m2 > 0
\* (sigmaTot after i's removal); it then moves to the community of maximum
\* gain, among equal maxima to the one whose first member comes first in
\* ascending neighbour index; with no positive gain it stays.
C18_MovesToBestGain ==
    [][visit' = visit + 1 =>
          /\ community'[visit] =
                Chosen(community, AfterRemoval(sigmaTot, community, visit), visit)
          /\ \A j \in 0..(nodeCount - 1) : j # visit => community'[j] = community[j]]_vars

\* node i = visit - 1 of the first pass was alone in community i before its visit
BeforeFirstVisit == [community EXCEPT ![visit - 1] = visit - 1]

\* in the first pass a node has just moved, two neighbouring communities
\* having had the same positive maximum gain
C18_Witness ==
    /\ lpc = "visit"
    /\ iter = 0
    /\ visit > 0
    /\ community[visit - 1] # visit - 1
    /\ LET i == visit - 1
           tot == [sigmaTot EXCEPT ![community[i]] = @ - SumTo(adj[i], nodeCount)]
       IN  /\ Cardinality(MaxGainComms(BeforeFirstVisit, tot, i)) >= 2
           /\ community[i] \in MaxGainComms(BeforeFirstVisit, tot, i)
           /\ ScaledGain(BeforeFirstVisit, tot, i, community[i]) > 0

\* a pass over all nodes has just ended
PassOver == lpc = "visit" /\ visit = nodeCount

\* no visit would change the community of any node
NoNodeWouldMove ==
    \A i \in 0..(nodeCount - 1) :
        Chosen(community, AfterRemoval(sigmaTot, community, i), i) = community[i]

----------------------------------------------------------------------------
(* Shortest paths of the thresholded graph, and the scores of            *)
(* betweennessCentrality stated through them (SpecBC)                    *)

\* u and v are joined by an edge of weight >= threshold
Linked(u, v) == u # v /\ adj[u][v] >= threshold

\* walks[s][t] for one more hop: a walk to t ends with a hop from some u
MoreHops(walks) ==
    Whole([s \in 0..(nodeCount - 1) |-> Whole([t \in 0..(nodeCount - 1) |->
        SumTo([u \in 0..(nodeCount - 1) |->
                  IF Linked(u, t) THEN walks[s][u] ELSE 0], nodeCount)])])

\* tables[k + 1][s][t]: the number of walks of k hops from s to t
RECURSIVE WalkTables(_)
WalkTables(k) ==
    IF k = 0
    THEN <<Whole([s \in 0..(nodeCount - 1) |-> Whole([t \in 0..(nodeCount - 1) |->
              IF s = t THEN 1 ELSE 0])])>>
    ELSE LET prev == WalkTables(k - 1)
         IN  Append(prev, MoreHops(prev[k]))

\* t can be reached from s
Connected(tables, s, t) == \E k \in 1..Len(tables) : tables[k][s][t] > 0

\* the hop count of a shortest path from s to t (for connected s, t)
HopDistance(tables, s, t) ==
    (CHOOSE k \in 1..Len(tables) :
        tables[k][s][t] > 0 /\ \A h \in 1..(k - 1) : tables[h][s][t] = 0) - 1

\* the number of shortest paths from s to t: a walk of least length is a path
ShortestPaths(tables, s, t) == tables[HopDistance(tables, s, t) + 1][s][t]

\* the number of shortest paths from s to t that pass through w
ShortestPathsThrough(tables, s, t, w) ==
    IF /\ Connected(tables, s, w)
       /\ Connected(tables, w, t)
       /\ HopDistance(tables, s, w) + HopDistance(tables, w, t) = HopDistance(tables, s, t)
    THEN ShortestPaths(tables, s, w) * ShortestPaths(tables, w, t)
    ELSE 0

\* the share of the ordered pair (s, t) in the score of w
PairShare(tables, s, t, w) ==
    IF s # t /\ s # w /\ t # w /\ Connected(tables, s, t)
    THEN Ratio(ShortestPathsThrough(tables, s, t, w), ShortestPaths(tables, s, t))
    ELSE RZero

RECURSIVE RSumTo(_, _)
RSumTo(f, k) == IF k = 0 THEN RZero ELSE RAdd(RSumTo(f, k - 1), f[k - 1])

\* the sum of the shares of the pairs (s, t) with s among the first k sources
PairSum(tables, w, k) ==
    RSumTo([s \in 0..(nodeCount - 1) |->
               IF s < k
               THEN RSumTo([t \in 0..(nodeCount - 1) |-> PairShare(tables, s, t, w)],
                           nodeCount)
               ELSE RZero], nodeCount)

\* the sums for every node, a path having at most nodeCount - 1 hops
PairSums(k) ==
    LET tables == WalkTables(nodeCount - 1)
    IN  Whole([w \in 0..(nodeCount - 1) |-> PairSum(tables, w, k)])

\* p and q are the same rational number
REq(p, q) == p.num * q.den = q.num * p.den

\* C20: the raw score accumulated for node w is the sum, over the ordered
\* pairs (s, t) of distinct nodes other than w that are connected, of the
\* number of shortest s-t paths through w over the number of shortest s-t
\* paths (edges of weight >= threshold, hop count as length); the returned
\* value is that score over the largest score, or 0 for every node when
\* every score is 0.
C20_SumOfPathFractions ==
    bpc # "idle" =>
      LET sums == PairSums(bcSource)
      IN  /\ \A w \in Nodes : REq(bc[w], sums[w])
          /\ bpc = "done" =>
               \A w \in Nodes :
                 IF \A v \in Nodes : sums[v].num = 0
                 THEN bcOut[w].num = 0
                 ELSE \E v \in Nodes :
                         /\ \A u \in Nodes : RLeq(sums[u], sums[v])
                         /\ REq(bcOut[w], RDiv(sums[w], sums[v]))

\* a pair with two shortest paths and a node on one of them only
C20_Witness ==
    /\ bpc = "done"
    /\ LET tables == WalkTables(nodeCount - 1)
       IN  \E s, t, w \in Nodes :
             /\ Connected(tables, s, t)
             /\ ShortestPaths(tables, s, t) >= 2
             /\ PairShare(tables, s, t, w).num > 0
             /\ PairShare(tables, s, t, w).num < PairShare(tables, s, t, w).den
             /\ bcOut[w].num > 0

----------------------------------------------------------------------------
(* One call of fa2Iterate, phase by phase *)

\* a configuration with strong gravity: { strongGravity: true, gravity: 100 }
StrongGravityConfig ==
    [DEFAULT_CONFIG EXCEPT !.strongGravity = TRUE, !.gravity = 100 * Unit]

\* the position arrays of the calls: two nodes 10.003 on either side of the
\* centre, two nodes 0.005 apart, two coincident nodes, one node at the
\* centre, two nodes 30 apart, and three nodes of which one is far away
StagePositions ==
    {<<Point(489997, CenterY), Point(510003, CenterY)>>,
     <<Point(200 * Unit, 200 * Unit), Point(200 * Unit + 5, 200 * Unit)>>,
     <<Point(200 * Unit, 200 * Unit), Point(200 * Unit, 200 * Unit)>>,
     <<Point(CenterX, CenterY)>>,
     <<Point(200 * Unit, 200 * Unit), Point(230 * Unit, 200 * Unit)>>,
     <<Point(200 * Unit, 200 * Unit), Point(230 * Unit, 200 * Unit),
       Point(800 * Unit, 500 * Unit)>>}

StagesInit ==
    /\ \E a \in StagePositions :
         \E E \in SUBSET UPairs(Len(a)) :
           \E cfg \in {DEFAULT_CONFIG, DriverConfig, StrongGravityConfig} :
             \E f \in 0..(FaFrames - 1) :
               LET es == EdgeSeqOf(E, PairSeq(Len(a)))
                   start == CreateFA2Nodes(ZeroBased(a), DegreesOf(Len(a), es))
               IN  /\ stInput = [nodes |-> start, edges |-> es, cfg |-> cfg,
                                 frame |-> f, totalFrames |-> FaFrames]
                   /\ stNodes = start
    /\ stStage = "forces"
    /\ stPair = 0
    /\ nodeCount = 0
    /\ adj = <<>>
    /\ GraphIdle
    /\ LouvainIdle
    /\ BcIdle
    /\ FaIdle
    /\ DriverIdle
    /\ PhaseIdle

\* lines 72-164: reset, repulsion, attraction, gravity
StForces ==
    /\ stStage = "forces"
    /\ stNodes' = Fa2Forces(stNodes, stInput.edges, stInput.cfg,
                            stInput.frame, stInput.totalFrames)
    /\ stStage' = "displace"
    /\ UNCHANGED <<stInput, stPair>>
    /\ UNCHANGED <<graphVars, adj, nodeCount, lvVars, bcVars, faVars, drVars, phVars>>

\* lines 166-209: adaptive speed and the displacement of every node
StDisplace ==
    /\ stStage = "displace"
    /\ stNodes' = ApplyDisplacements(AdaptiveSpeed(stNodes, stInput.cfg), stInput.cfg,
                                     ClampedSpeed(stNodes, stInput.cfg))
    /\ stStage' = "overlap"
    /\ stPair' = 1
    /\ UNCHANGED stInput
    /\ UNCHANGED <<graphVars, adj, nodeCount, lvVars, bcVars, faVars, drVars, phVars>>

\* the pairs of the overlap loop in the order of lines 213-214
StPairs == PairSeq(NodeCountOf(stNodes))

\* lines 215-226: the visit of one pair
StOverlapVisit ==
    /\ stStage = "overlap"
    /\ stPair <= Len(StPairs)
    /\ stNodes' = SeparatePair(stNodes, StPairs[stPair][1], StPairs[stPair][2])
    /\ stPair' = stPair + 1
    /\ UNCHANGED <<stInput, stStage>>
    /\ UNCHANGED <<graphVars, adj, nodeCount, lvVars, bcVars, faVars, drVars, phVars>>

\* lines 230-241: the bounds phase, and the return
StBounds ==
    /\ stStage = "overlap"
    /\ stPair > Len(StPairs)
    /\ stNodes' = SoftBounds(stNodes)
    /\ stStage' = "done"
    /\ UNCHANGED <<stInput, stPair>>
    /\ UNCHANGED <<graphVars, adj, nodeCount, lvVars, bcVars, faVars, drVars, phVars>>

StagesNext == StForces \/ StDisplace \/ StOverlapVisit \/ StBounds

SpecStages == StagesInit /\ [][StagesNext]_vars

----------------------------------------------------------------------------
(* The phase multiplier of fa2Iterate over the calls frame = 0 .. totalFrames *)

PhaseInit ==
    /\ phTotal \in 1..MaxTotal
    /\ phFrame = 0
    /\ phValue = RZero
    /\ nodeCount = 0
    /\ adj = <<>>
    /\ GraphIdle
    /\ LouvainIdle
    /\ BcIdle
    /\ FaIdle
    /\ DriverIdle
    /\ StagesIdle

\* lines 79-87 of one call, then the caller's frame++
PhaseCall ==
    /\ phFrame <= phTotal
    /\ phValue' = PhaseMultiplier(phFrame, phTotal)
    /\ phFrame' = phFrame + 1
    /\ UNCHANGED phTotal
    /\ UNCHANGED <<graphVars, adj, nodeCount, lvVars, bcVars, faVars, drVars, stVars>>

PhaseNext == PhaseCall

SpecPhase == PhaseInit /\ [][PhaseNext]_vars

\* the frame of the last call
LastFrame == phFrame - 1

\* the value the claim states for frame f of t frames: 0.3 + 0.7 * (1 -
\* (f/t - 0.67) / 0.33) is 0.3 + 70 * (t - f) / (33 * t)
StatedMultiplier(f, t) ==
    IF 10 * f < 2 * t THEN RInt(2)
    ELSE IF 100 * f < 67 * t THEN ROne
    ELSE RAdd(Ratio(3, 10), Ratio(70 * (t - f), 33 * t))

\* C21: for totalFrames > 0 and 0 <= frame <= totalFrames the phase
\* multiplier is 2.0 when frame/totalFrames < 0.2, 1.0 when it is in
\* [0.2, 0.67) and 0.3 + 0.7*(1 - (progress - 0.67)/0.33) otherwise; it lies
\* in [0.3, 2.0] and never increases from one frame to the next.
C21_PhaseMultiplierSteps ==
    /\ [](phFrame > 0 =>
            /\ REq(phValue, StatedMultiplier(LastFrame, phTotal))
            /\ RLeq(Ratio(3, 10), phValue)
            /\ RLeq(phValue, RInt(2)))
    /\ [][(phFrame > 0 /\ phFrame' = phFrame + 1) => RLeq(phValue', phValue)]_vars

\* the last call of a run whose earlier calls went through all three phases:
\* the multiplier has come down to exactly 0.3
C21_Witness ==
    /\ phTotal >= 10
    /\ LastFrame = phTotal
    /\ REq(phValue, Ratio(3, 10))

----------------------------------------------------------------------------
(* Properties of the phases of one fa2Iterate call (SpecStages) *)

StIndexes == DOMAIN stNodes

\* the displacement phase is being run
Displacing == stStage = "displace" /\ stStage' = "overlap"

\* the length of the accumulated force of node i
ForceLength(i) == Hyp(stNodes[i].dx, stNodes[i].dy)

\* how far the step moves node i
MovedX(i) == stNodes'[i].x - stNodes[i].x
MovedY(i) == stNodes'[i].y - stNodes[i].y
MovedLength(i) == Hyp(MovedX(i), MovedY(i))

\* min(globalSpeed * convergence / slowingRatio * |force|, 10), globalSpeed
\* being the clamped speed of line 193 and convergence the one of this call
StatedLength(i) ==
    Min2(Mul(Div(Mul(ClampedSpeed(stNodes, stInput.cfg), stNodes'[i].convergence),
                 stInput.cfg.slowingRatio),
             ForceLength(i)),
         10 * Unit)

\* C22: in the displacement phase each node's position changes by a vector
\* parallel to its accumulated force, of length min(globalSpeed *
\* convergence / slowingRatio * |force|, 10) with globalSpeed at most 10, so
\* no node is displaced by more than 10 (lengths to within the rounding of
\* the two coordinates, 0.003).
C22_DisplacementLimited ==
    [][Displacing =>
          /\ ClampedSpeed(stNodes, stInput.cfg) <= 10 * Unit
          /\ \A i \in StIndexes :
                /\ MovedLength(i) <= 10 * Unit
                /\ Abs(MovedLength(i) - StatedLength(i)) <= 3
                /\ ForceLength(i) = 0 => (MovedX(i) = 0 /\ MovedY(i) = 0)
                /\ ForceLength(i) > 0 =>
                      /\ Abs(MovedX(i) - MulDiv(stNodes[i].dx, StatedLength(i), ForceLength(i))) <= 3
                      /\ Abs(MovedY(i) - MulDiv(stNodes[i].dy, StatedLength(i), ForceLength(i))) <= 3]_vars

\* after the displacement phase: a node whose force is longer than 10 was
\* moved by exactly 10
C22_Witness ==
    /\ stStage = "overlap"
    /\ stPair = 1
    /\ \E i \in StIndexes :
          /\ Hyp(stNodes[i].dx, stNodes[i].dy) > 10 * Unit
          /\ Hyp(stNodes[i].x - stInput.nodes[i].x, stNodes[i].y - stInput.nodes[i].y)
                = 10 * Unit

\* a pair of the overlap loop is being visited
Visiting == stStage = "overlap" /\ stPair' = stPair + 1

VisitedI == StPairs[stPair][1]
VisitedJ == StPairs[stPair][2]

\* the distance of the pair at the moment of its visit, and right after it
DistanceBefore ==
    Hyp(stNodes[VisitedJ].x - stNodes[VisitedI].x, stNodes[VisitedJ].y - stNodes[VisitedI].y)
DistanceAfter ==
    Hyp(stNodes'[VisitedJ].x - stNodes'[VisitedI].x,
        stNodes'[VisitedJ].y - stNodes'[VisitedI].y)

\* the precision of a length above 32.767, whose operands Hyp scales down
Rounding == Unit \div 100

\* nodes i and j were each moved by half the deficit, in opposite directions,
\* and are 65 apart (to within the precision of the lengths)
PushedApart ==
    /\ Abs(MovedLength(VisitedI) - (MinSeparation - DistanceBefore) \div 2) <= Rounding
    /\ Abs(MovedLength(VisitedJ) - (MinSeparation - DistanceBefore) \div 2) <= Rounding
    /\ MovedX(VisitedI) = 0 - MovedX(VisitedJ)
    /\ MovedY(VisitedI) = 0 - MovedY(VisitedJ)
    /\ Abs(DistanceAfter - MinSeparation) <= Rounding

\* C23: in the overlap phase every pair i < j whose distance d when visited
\* satisfies 0 < d < 65, however small d is, has both nodes moved by
\* (65 - d)/2 in opposite directions along their connecting line and is 65
\* apart right after; pairs with d >= 65 are not moved.
C23_EveryClosePairPushed ==
    [][Visiting =>
          /\ (0 < DistanceBefore /\ DistanceBefore < MinSeparation) => PushedApart
          /\ DistanceBefore >= MinSeparation => stNodes' = stNodes]_vars

\* the force phases are being run
Forcing == stStage = "forces" /\ stStage' = "displace"

\* the floor of the distances: 0.01
DistanceFloor == Unit \div 100

\* scalingRatio * phaseMultiplier of the call (line 98)
StScalingRatio ==
    Mul(stInput.cfg.scalingRatio, PhaseUnits(stInput.frame, stInput.totalFrames))

\* the divisor of the repulsion of the pair (i, j) and of the attraction
\* along an edge from i to j (lines 103, 123)
PairDivisor(i, j) ==
    FlooredDist(stNodes[j].x - stNodes[i].x, stNodes[j].y - stNodes[i].y)

\* the divisor of the gravity of node i (line 153)
CentreDivisor(i) == FlooredDist(stNodes[i].x - CenterX, stNodes[i].y - CenterY)

\* C24: in the repulsion, attraction and gravity phases the distance used as
\* a divisor is never smaller than 0.01, for coincident nodes and for nodes
\* closer than 0.01 alike, so the repulsion between two nodes never exceeds
\* scalingRatio * phaseMultiplier * mass_i * mass_j / 0.01.
C24_DivisorsFloored ==
    [][Forcing =>
          /\ \A i, j \in StIndexes : i < j =>
                /\ PairDivisor(i, j) >= DistanceFloor
                /\ RepulsionForce(StScalingRatio, stNodes[i].mass, stNodes[j].mass,
                                  PairDivisor(i, j))
                     <= RepulsionForce(StScalingRatio, stNodes[i].mass, stNodes[j].mass,
                                       DistanceFloor)
          /\ \A k \in 1..Len(stInput.edges) :
                PairDivisor(stInput.edges[k].source, stInput.edges[k].target) >= DistanceFloor
          /\ \A i \in StIndexes : CentreDivisor(i) >= DistanceFloor]_vars

----------------------------------------------------------------------------
(* Modularity of the partitions louvainCommunities goes through (SpecLouvain) *)

\* the part of the ordered pair (i, j) in m2 * m2 times the modularity:
\* m2 * A[i][j] - k_i * k_j when i and j share a community, else 0
PairTerm(comm, deg, m2, i, j) ==
    IF comm[i] = comm[j] THEN adj[i][j] * m2 - deg[i] * deg[j] ELSE 0

\* m2 * m2 times the modularity of the partition comm, an integer: the sum
\* over the communities c of m2 * inside(c) - total(c)^2, taken pair by pair
ScaledModularity(comm) ==
    LET n == nodeCount
        deg == Whole([i \in 0..(n - 1) |-> SumTo(adj[i], n)])
        m2 == SumTo(deg, n)
    IN  SumTo([i \in 0..(n - 1) |->
                  SumTo([j \in 0..(n - 1) |-> PairTerm(comm, deg, m2, i, j)], n)],
              n)

\* every node alone
Singletons == [i \in 0..(nodeCount - 1) |-> i]

\* C25: no node visit lowers the modularity of the current partition (a
\* visit that moves no node leaves the partition, hence its modularity, as
\* it was), so the modularity of the returned partition is at least that of
\* the partition into singletons.
C25_ModularityNeverLowered ==
    /\ [][(visit' = visit + 1 /\ community' # community) =>
            ScaledModularity(community') >= ScaledModularity(community)]_vars
    /\ []((lpc = "done" /\ InPasses) =>
            ScaledModularity(louvainOut) >= ScaledModularity(Singletons))

\* a returned partition of higher modularity than the singletons
C25_Witness ==
    /\ lpc = "done"
    /\ InPasses
    /\ ScaledModularity(louvainOut) > ScaledModularity(Singletons)
    /\ \E i, j \in 0..(nodeCount - 1) : i # j /\ louvainOut[i] = louvainOut[j]

====
